---- MODULE Spec2Model ----
(***************************************************************************)
(* A model of gori: the scan orchestrator of cmd/gori.go (run), the        *)
(* upstream determination (isUpstreamed, getLikelyUpstreamMainishBranch,   *)
(* isBranchUpstreamed), the project record of project.go and the snooze    *)
(* engine of snooze.go (ApplySnooze, isSnoozed, parseSnoozeDuration,       *)
(* SnoozeCheck, LoadIgnoreConfig, getRelativePath).                        *)
(*                                                                         *)
(* The specifications of the module:                                       *)
(*   Spec         the concurrent scan of run: feeder, workers, consumer    *)
(*   SpecNoStore  the scan when the ignore file cannot be loaded           *)
(*   SpecHang     the scan, fairly scheduled, with one evaluation that     *)
(*                never returns                                            *)
(*   SpecFair     the scan, fairly scheduled, when every evaluation        *)
(*                returns                                                  *)
(*   SpecGit      the upstream functions applied to bounded repositories   *)
(*   SpecSnooze   ApplySnooze, one iteration of its loop per step          *)
(*   SpecDuration parseSnoozeDuration applied to bounded strings           *)
(*   SpecStore    SnoozeCheck, the clock and ApplySnooze over the file     *)
(***************************************************************************)
EXTENDS Integers, Sequences, FiniteSets, TLC

(***************************************************************************)
(* Bounds of the model.                                                    *)
(***************************************************************************)
MaxDirs == 2
MaxConcurrency == 2
MaxCommits == 3
MaxEntries == 2
MaxWall == 1
TicksPerSecond == 2
MaxCount == 3
MaxCalls == 1

(***************************************************************************)
(* Strings.  Go compares strings byte by byte, so a path that is sorted    *)
(* is modelled by its bytes.                                               *)
(***************************************************************************)
SegBytes(s) ==
    CASE s = "a" -> <<97>>
      [] s = "b" -> <<98>>
      [] s = "c" -> <<99>>
      [] s = "a-b" -> <<97, 45, 98>>
      [] s = "ab" -> <<97, 98>>
      [] s = "w" -> <<119>>
      [] s = "." -> <<46>>
      [] s = ".." -> <<46, 46>>

\* The file names a scanned directory may hold, the first MaxDirs of them.
NameList ==
    <<"b", "a", "ab", "a-b", "c">>

DirNames ==
    {NameList[i] : i \in 1..(IF MaxDirs < Len(NameList) THEN MaxDirs ELSE Len(NameList))}

(***************************************************************************)
(* path/filepath.  A path is [abs, segs]: whether it starts at the root,   *)
(* and its elements.                                                       *)
(***************************************************************************)
MkPath(abs, segs) ==
    [abs |-> abs, segs |-> segs]

\* The process's working directory, which filepath.Abs prepends.
Cwd ==
    MkPath(TRUE, <<"w">>)

RECURSIVE CleanSegs(_, _, _)
CleanSegs(abs, segs, out) ==
    IF segs = <<>> THEN out
    ELSE LET s == Head(segs)
             rest == Tail(segs)
         IN  IF s = "." THEN CleanSegs(abs, rest, out)
             ELSE IF s = ".." THEN
                 IF out # <<>> /\ out[Len(out)] # ".."
                 THEN CleanSegs(abs, rest, SubSeq(out, 1, Len(out) - 1))
                 ELSE IF abs THEN CleanSegs(abs, rest, out)
                 ELSE CleanSegs(abs, rest, Append(out, ".."))
             ELSE CleanSegs(abs, rest, Append(out, s))

\* filepath.Clean: drops ".", resolves "..", and names the empty relative path ".".
Clean(p) ==
    LET segs == CleanSegs(p.abs, p.segs, <<>>)
    IN  MkPath(p.abs, IF ~p.abs /\ segs = <<>> THEN <<".">> ELSE segs)

\* filepath.Join: the elements one after the other, cleaned; the result is
\* absolute when the first element is.
Join(p, q) ==
    Clean(MkPath(p.abs, p.segs \o q.segs))

\* filepath.Abs
Abs(p) ==
    IF p.abs THEN Clean(p) ELSE Join(Cwd, p)

\* filepath.Base of a cleaned path
Base(p) ==
    IF p.segs = <<>> THEN "/" ELSE p.segs[Len(p.segs)]

RECURSIVE JoinBytes(_)
JoinBytes(segs) ==
    IF segs = <<>> THEN <<>>
    ELSE IF Len(segs) = 1 THEN SegBytes(segs[1])
    ELSE SegBytes(segs[1]) \o <<47>> \o JoinBytes(Tail(segs))

\* The bytes of a path's string.
PathBytes(p) ==
    (IF p.abs THEN <<47>> ELSE <<>>) \o JoinBytes(p.segs)

RECURSIVE LessBytes(_, _)
\* Go's string "<": the first differing byte decides, a proper prefix is less.
LessBytes(x, y) ==
    IF y = <<>> THEN FALSE
    ELSE IF x = <<>> THEN TRUE
    ELSE IF x[1] # y[1] THEN x[1] < y[1]
    ELSE LessBytes(Tail(x), Tail(y))

LessPath(p, q) ==
    LessBytes(PathBytes(p), PathBytes(q))

RemoveAt(s, i) ==
    SubSeq(s, 1, i - 1) \o SubSeq(s, i + 1, Len(s))

\* A scan that keeps the order of the directory listing.
SortPaths_listingOrder(paths) ==
    paths

RECURSIVE SortPaths(_)
\* slices.Sort(repoPaths)
SortPaths(paths) ==
    IF paths = <<>> THEN <<>>
    ELSE LET i == CHOOSE k \in 1..Len(paths) :
                      \A j \in 1..Len(paths) : ~LessPath(paths[j], paths[k])
         IN  <<paths[i]>> \o SortPaths(RemoveAt(paths, i))

(***************************************************************************)
(* project.go                                                              *)
(***************************************************************************)
NoStatusString ==
    ""

NewProject(path, isDirty, hasStash, upstreamed) ==
    [Path |-> path,
     IsDirty |-> isDirty,
     HasStash |-> hasStash,
     Upstreamed |-> upstreamed,
     isDirtySnoozed |-> FALSE,
     hasStashSnoozed |-> FALSE,
     upstreamedSnoozed |-> FALSE,
     StatusString |-> NoStatusString]

ProjectClean(p) ==
    ~(p.IsDirty \/ p.HasStash \/ ~p.Upstreamed)

(***************************************************************************)
(* Time.  An instant is a number of ticks, TicksPerSecond to the second.   *)
(* A snooze timestamp is a string: empty, a time.DateTime text (whole      *)
(* seconds of a wall clock, no zone), or some other text.                  *)
(***************************************************************************)
EmptyStamp ==
    [text |-> "empty", wall |-> 0]

GarbageStamp ==
    [text |-> "garbage", wall |-> 0]

DateTimeStamp(w) ==
    [text |-> "datetime", wall |-> w]

Stamps ==
    {EmptyStamp, GarbageStamp} \cup {DateTimeStamp(w) : w \in 0..MaxWall}

MaxTime ==
    (MaxWall + 1) * TicksPerSecond - 1

Instants ==
    0..MaxTime

\* time.Parse(time.DateTime, s): a text without a zone is read as UTC.
ParseDateTime(s) ==
    IF s.text = "datetime"
    THEN [ok |-> TRUE, t |-> s.wall * TicksPerSecond]
    ELSE [ok |-> FALSE, t |-> 0]

\* isSnoozed that also counts the very instant of the timestamp as snoozed.
isSnoozed_inclusive(snoozeTime, clock) ==
    LET r == ParseDateTime(snoozeTime)
    IN  IF ~r.ok THEN FALSE ELSE clock <= r.t

\* isSnoozed that takes a timestamp it cannot read for one still ahead.
isSnoozed_failOpen(snoozeTime, clock) ==
    LET r == ParseDateTime(snoozeTime)
    IN  IF ~r.ok THEN TRUE ELSE clock < r.t

\* isSnoozed, with the clock time.Now() reads as "now"
isSnoozed(snoozeTime, clock) ==
    LET r == ParseDateTime(snoozeTime)
    IN  IF ~r.ok THEN FALSE ELSE clock < r.t

(***************************************************************************)
(* snooze.go: IgnoreConfig and ApplySnooze                                 *)
(***************************************************************************)
MkSnooze(dirty, stashes, notUpstreamed) ==
    [DirtyWorkdir |-> dirty, Stashes |-> stashes, NotUpstreamed |-> notUpstreamed]

MkRepoEntry(path, snooze) ==
    [Path |-> path, Snooze |-> snooze]

\* A *IgnoreConfig: nil, or the entries of the file.
NilConfig ==
    [isNil |-> TRUE, Repos |-> <<>>]

MkConfig(repos) ==
    [isNil |-> FALSE, Repos |-> repos]

\* A match of the last path elements only.
EntryMatches_byName(repoPath, entry, root) ==
    Base(Clean(entry.Path)) = Base(Clean(repoPath))

\* Whether the entry's path, resolved against the scan root, is the project's.
EntryMatches(repoPath, entry, root) ==
    LET ignoreFileDir == IF ~root.abs THEN Abs(root) ELSE root
        resolvedPath == Clean(Join(ignoreFileDir, entry.Path))
        absRepoPath == Clean(Abs(repoPath))
    IN  resolvedPath = absRepoPath

\* The dirty check without its test of the finding.
SnoozeDirty_unguarded(project, stamp, clock) ==
    IF stamp # EmptyStamp /\ isSnoozed(stamp, clock)
    THEN [project EXCEPT !.IsDirty = FALSE, !.isDirtySnoozed = TRUE]
    ELSE project

\* if project.IsDirty && repo.Snooze.DirtyWorkdir != "" { if isSnoozed(...) {...} }
SnoozeDirty(project, stamp, clock) ==
    IF project.IsDirty /\ stamp # EmptyStamp /\ isSnoozed(stamp, clock)
    THEN [project EXCEPT !.IsDirty = FALSE, !.isDirtySnoozed = TRUE]
    ELSE project

\* The stash check that marks the finding snoozed and leaves it standing.
SnoozeStash_flagOnly(project, stamp, clock) ==
    IF project.HasStash /\ stamp # EmptyStamp /\ isSnoozed(stamp, clock)
    THEN [project EXCEPT !.hasStashSnoozed = TRUE]
    ELSE project

\* The stash check that assigns its flag anew on every call.
SnoozeStash_flagAssigned(project, stamp, clock) ==
    IF project.HasStash /\ stamp # EmptyStamp /\ isSnoozed(stamp, clock)
    THEN [project EXCEPT !.HasStash = FALSE, !.hasStashSnoozed = TRUE]
    ELSE [project EXCEPT !.hasStashSnoozed = FALSE]

\* if project.HasStash && repo.Snooze.Stashes != "" { if isSnoozed(...) {...} }
SnoozeStash(project, stamp, clock) ==
    IF project.HasStash /\ stamp # EmptyStamp /\ isSnoozed(stamp, clock)
    THEN [project EXCEPT !.HasStash = FALSE, !.hasStashSnoozed = TRUE]
    ELSE project

\* if !project.Upstreamed && repo.Snooze.NotUpstreamed != "" { if isSnoozed(...) {...} }
SnoozeUpstreamed(project, stamp, clock) ==
    IF ~project.Upstreamed /\ stamp # EmptyStamp /\ isSnoozed(stamp, clock)
    THEN [project EXCEPT !.Upstreamed = TRUE, !.upstreamedSnoozed = TRUE]
    ELSE project

\* The three checks of ApplySnooze's loop body, for an entry that matches.
SnoozeKinds(project, entry, clock) ==
    SnoozeUpstreamed(
        SnoozeStash(SnoozeDirty(project, entry.Snooze.DirtyWorkdir, clock),
                    entry.Snooze.Stashes, clock),
        entry.Snooze.NotUpstreamed, clock)

\* One iteration of ApplySnooze's loop over config.Repos.
ApplySnoozeEntry(repoPath, project, entry, root, clock) ==
    IF EntryMatches(repoPath, entry, root)
    THEN SnoozeKinds(project, entry, clock)
    ELSE project

RECURSIVE ApplySnoozeRepos(_, _, _, _, _)
ApplySnoozeRepos(repoPath, project, repos, root, clock) ==
    IF repos = <<>> THEN project
    ELSE ApplySnoozeRepos(repoPath,
                          ApplySnoozeEntry(repoPath, project, Head(repos), root, clock),
                          Tail(repos), root, clock)

\* ApplySnooze: the project after the call.
ApplySnooze(repoPath, project, config, root, clock) ==
    IF config.isNil THEN project
    ELSE ApplySnoozeRepos(repoPath, project, config.Repos, root, clock)

(***************************************************************************)
(* The repository as go-git shows it.  Commits are 1..MaxCommits, a        *)
(* commit's parents are earlier commits.  A repository has one local       *)
(* branch, the checked-out one (refs/heads/<head>, tip "local", 0 when     *)
(* the branch has no commit yet), or a detached HEAD (head = "HEAD", at    *)
(* the commit "local"), and remote-tracking branches                       *)
(* refs/remotes/origin/<b> (tip 0: no such reference).  Every reference    *)
(* points at a commit of the object store.                                 *)
(***************************************************************************)
Commits ==
    1..MaxCommits

LocalBranches ==
    {"main", "feat"}

RemoteBranches ==
    {"main", "master", "feat"}

RECURSIVE ParentMapsUpTo(_)
\* The parent relations on the commits 1..n: the parents of c are among 1..c-1.
ParentMapsUpTo(n) ==
    IF n = 0 THEN {<<>>}
    ELSE {Append(pm, ps) : pm \in ParentMapsUpTo(n - 1), ps \in SUBSET (1..(n - 1))}

ParentMaps ==
    ParentMapsUpTo(MaxCommits)

MkRepo(parents, head, local, remote) ==
    [parents |-> parents, head |-> head, local |-> local, remote |-> remote]

\* Go errors: a sentinel, possibly wrapped by fmt.Errorf("...: %w").  Only an
\* unwrapped sentinel equals the sentinel under "==".
ErrNil ==
    [kind |-> "nil", wrapped |-> FALSE]

ErrReferenceNotFound ==
    [kind |-> "reference not found", wrapped |-> FALSE]

ErrNoMainish ==
    [kind |-> "neither main nor master branch exists", wrapped |-> FALSE]

Wrap(err) ==
    [err EXCEPT !.wrapped = TRUE]

\* repo.Reference(plumbing.NewBranchReferenceName(name), true)
LocalReference(repo, name) ==
    IF name = repo.head /\ repo.local # 0
    THEN [hash |-> repo.local, err |-> ErrNil]
    ELSE [hash |-> 0, err |-> ErrReferenceNotFound]

\* repo.Reference(plumbing.NewRemoteReferenceName("origin", name), true)
RemoteReference(repo, name) ==
    IF name \in RemoteBranches /\ repo.remote[name] # 0
    THEN [hash |-> repo.remote[name], err |-> ErrNil]
    ELSE [hash |-> 0, err |-> ErrReferenceNotFound]

RECURSIVE PreorderFinds(_, _, _, _)
\* object.NewCommitPreorderIter from the frontier, stopped at target: the
\* walk follows parents and skips what it has seen.
PreorderFinds(parents, frontier, seen, target) ==
    IF frontier = {} THEN FALSE
    ELSE IF target \in frontier THEN TRUE
    ELSE PreorderFinds(parents,
                       (UNION {parents[c] : c \in frontier}) \ (seen \cup frontier),
                       seen \cup frontier, target)

\* A walk that looks at the commit itself and its parents only.
IsAncestor_oneStep(repo, c, other) ==
    c = other \/ c \in repo.parents[other]

\* (*object.Commit).IsAncestor: whether the walk back from other meets c.
IsAncestor(repo, c, other) ==
    PreorderFinds(repo.parents, {other}, {}, c)

\* isBranchUpstreamed that wraps the error of the remote lookup as it wraps
\* the error of the local one.
isBranchUpstreamed_wrapRemote(repo, localBranchName, remoteBranchName) ==
    LET localRef == LocalReference(repo, localBranchName)
        remoteRef == RemoteReference(repo, remoteBranchName)
    IN  IF localRef.err # ErrNil THEN [val |-> FALSE, err |-> Wrap(localRef.err)]
        ELSE IF remoteRef.err # ErrNil THEN [val |-> FALSE, err |-> Wrap(remoteRef.err)]
        ELSE [val |-> IsAncestor(repo, localRef.hash, remoteRef.hash), err |-> ErrNil]

\* isBranchUpstreamed that looks the remote branch up before the local one.
isBranchUpstreamed_remoteFirst(repo, localBranchName, remoteBranchName) ==
    LET localRef == LocalReference(repo, localBranchName)
        remoteRef == RemoteReference(repo, remoteBranchName)
    IN  IF remoteRef.err # ErrNil THEN [val |-> FALSE, err |-> remoteRef.err]
        ELSE IF localRef.err # ErrNil THEN [val |-> FALSE, err |-> Wrap(localRef.err)]
        ELSE [val |-> IsAncestor(repo, localRef.hash, remoteRef.hash), err |-> ErrNil]

\* isBranchUpstreamed: (bool, error)
isBranchUpstreamed(repo, localBranchName, remoteBranchName) ==
    LET localRef == LocalReference(repo, localBranchName)
        remoteRef == RemoteReference(repo, remoteBranchName)
    IN  IF localRef.err # ErrNil THEN [val |-> FALSE, err |-> Wrap(localRef.err)]
        ELSE IF remoteRef.err # ErrNil THEN [val |-> FALSE, err |-> remoteRef.err]
        ELSE [val |-> IsAncestor(repo, localRef.hash, remoteRef.hash), err |-> ErrNil]

\* A reference name as repo.References() yields it.
RefName(isRemote, short) ==
    [isRemote |-> isRemote, short |-> short]

\* The remote-tracking references of a repository.
RemoteReferenceSet(r) ==
    {RefName(TRUE, "origin/" \o b) : b \in {x \in RemoteBranches : r.remote[x] # 0}}

\* The orders in which repo.References() may yield the references: the
\* local branch, then the remote-tracking ones in any order (go-git
\* promises none: loose references come before packed ones).
ReferenceOrders(r) ==
    LET refs == RemoteReferenceSet(r)
        n == Cardinality(refs)
        heads == IF r.head # "HEAD" /\ r.local # 0
                 THEN <<RefName(FALSE, r.head)>> ELSE <<>>
    IN  {heads \o o : o \in {q \in [1..n -> refs] : \A i, j \in 1..n : i # j => q[i] # q[j]}}

RECURSIVE MainishFold(_, _)
\* The callback of refIter.ForEach, over the references in the order given.
MainishFold(refs, mainish) ==
    IF refs = <<>> THEN mainish
    ELSE LET r == Head(refs)
             m1 == IF r.isRemote /\ r.short = "origin/master" THEN "master" ELSE mainish
             m2 == IF r.isRemote /\ r.short = "origin/main" THEN "main" ELSE m1
         IN  MainishFold(Tail(refs), m2)

\* A locator that settles for main when it has found neither branch.
getLikelyUpstreamMainishBranch_defaultMain(refs) ==
    LET mainish == MainishFold(refs, "")
    IN  [val |-> IF mainish = "" THEN "main" ELSE mainish, err |-> ErrNil]

\* getLikelyUpstreamMainishBranch: (string, error), the references enumerated
\* in the order "refs".
getLikelyUpstreamMainishBranch(refs) ==
    LET mainish == MainishFold(refs, "")
    IN  IF mainish = ""
        THEN [val |-> mainish, err |-> ErrNoMainish]
        ELSE [val |-> mainish, err |-> ErrNil]

\* repo.Head() that names a branch for a detached HEAD.
RepoHead_branchOfDetached(repo) ==
    IF repo.head = "HEAD" THEN [short |-> "main", err |-> ErrNil]
    ELSE IF repo.local = 0 THEN [short |-> "", err |-> ErrReferenceNotFound]
    ELSE [short |-> repo.head, err |-> ErrNil]

\* repo.Head(): HEAD resolved; it fails when the checked-out branch has no commit.
RepoHead(repo) ==
    IF repo.head = "HEAD" THEN [short |-> "HEAD", err |-> ErrNil]
    ELSE IF repo.local = 0 THEN [short |-> "", err |-> ErrReferenceNotFound]
    ELSE [short |-> repo.head, err |-> ErrNil]

\* A call isUpstreamed makes.
MkGitCall(fn, localBranchName, remoteBranchName) ==
    [fn |-> fn, localBranch |-> localBranchName, remoteBranch |-> remoteBranchName]

\* What a run of isUpstreamed does.
MkSteps(val, calls, out, errs) ==
    [val |-> val, calls |-> calls, out |-> out, errs |-> errs]

\* isUpstreamed step by step: the value it returns, the calls it makes to
\* isBranchUpstreamed and getLikelyUpstreamMainishBranch, and the
\* diagnostics it prints with fmt.Printf (out) and with
\* fmt.Fprintf(os.Stderr, ...) (errs).
isUpstreamedSteps(repo, refs) ==
    LET ref == RepoHead(repo)
    IN  IF ref.err # ErrNil
        THEN MkSteps(FALSE, <<>>, <<"Error getting HEAD">>, <<>>)
        ELSE IF ref.short = "HEAD"
        THEN MkSteps(FALSE, <<>>, <<>>, <<"local checkout does not have branch name">>)
        ELSE LET own == isBranchUpstreamed(repo, ref.short, ref.short)
                 c1 == <<MkGitCall("isBranchUpstreamed", ref.short, ref.short)>>
                 e1 == IF own.err # ErrNil /\ own.err # ErrReferenceNotFound
                       THEN <<"Error checking if branch itself is upstreamed">>
                       ELSE <<>>
             IN  IF own.val THEN MkSteps(TRUE, c1, <<>>, e1)
                 ELSE LET m == getLikelyUpstreamMainishBranch(refs)
                          c2 == Append(c1, MkGitCall("getLikelyUpstreamMainishBranch", "", ""))
                      IN  IF m.err # ErrNil
                          THEN MkSteps(FALSE, c2, <<>>,
                                       Append(e1, "could not determine upstream branch"))
                          ELSE LET inMain == isBranchUpstreamed(repo, ref.short, m.val)
                                   c3 == Append(c2, MkGitCall("isBranchUpstreamed",
                                                              ref.short, m.val))
                               IN  IF inMain.err # ErrNil /\ inMain.err # ErrReferenceNotFound
                                   THEN MkSteps(FALSE, c3, <<>>,
                                                Append(e1, "Error checking if branch is upstreamed into main"))
                                   ELSE IF inMain.err = ErrReferenceNotFound
                                   THEN MkSteps(FALSE, c3, <<>>,
                                                Append(e1, "origin does not have branch"))
                                   ELSE MkSteps(inMain.val, c3, <<>>, e1)

\* isUpstreamed that takes a repository whose HEAD it cannot read for
\* upstreamed.
isUpstreamed_optimistic(repo, refs) ==
    IF RepoHead(repo).err # ErrNil THEN TRUE
    ELSE isUpstreamedSteps(repo, refs).val

\* isUpstreamed: bool
isUpstreamed(repo, refs) ==
    LET ref == RepoHead(repo)
    IN  IF ref.err # ErrNil THEN FALSE
        ELSE IF ref.short = "HEAD" THEN FALSE
        ELSE LET own == isBranchUpstreamed(repo, ref.short, ref.short)
             IN  IF own.val THEN TRUE
                 ELSE LET m == getLikelyUpstreamMainishBranch(refs)
                      IN  IF m.err # ErrNil THEN FALSE
                          ELSE LET inMain == isBranchUpstreamed(repo, ref.short, m.val)
                               IN  IF inMain.err # ErrNil /\ inMain.err # ErrReferenceNotFound
                                   THEN FALSE
                                   ELSE IF inMain.err = ErrReferenceNotFound THEN FALSE
                                   ELSE IF ~inMain.val THEN FALSE
                                   ELSE TRUE

(***************************************************************************)
(* What a worker of run finds at a candidate directory: whether            *)
(* git.PlainOpen, repo.Worktree and wt.Status succeed, whether the status  *)
(* is clean, whether .git/refs/stash exists, and the repository with the   *)
(* order in which its references are enumerated.                           *)
(***************************************************************************)
MkCheckout(open, worktree, status, dirty, stash, repo, refs) ==
    [open |-> open, worktree |-> worktree, status |-> status,
     dirty |-> dirty, stash |-> stash, repo |-> repo, refs |-> refs]

\* A history of MaxCommits commits, each the child of the one before.
LinearParents ==
    [c \in Commits |-> IF c = 1 THEN {} ELSE {c - 1}]

NoRemotes ==
    [b \in RemoteBranches |-> 0]

\* main, as far as origin/main
RepoUpToDate ==
    MkRepo(LinearParents, "main", 1, [NoRemotes EXCEPT !["main"] = 1])

\* main with a commit, and no remote-tracking branch at all
RepoNoUpstream ==
    MkRepo(LinearParents, "main", 1, NoRemotes)

AnyOrder(r) ==
    CHOOSE o \in ReferenceOrders(r) : TRUE

\* The directories a scan meets: not a repository, a repository whose
\* status cannot be computed, and three checkouts: clean, dirty, and with a
\* stash and nothing to compare the branch with.  A bare repository, whose
\* worktree cannot be had, goes the way of the other two failures.
ScanCheckouts ==
    {MkCheckout(FALSE, FALSE, FALSE, FALSE, FALSE, RepoUpToDate, AnyOrder(RepoUpToDate)),
     MkCheckout(TRUE, TRUE, FALSE, FALSE, FALSE, RepoUpToDate, AnyOrder(RepoUpToDate)),
     MkCheckout(TRUE, TRUE, TRUE, FALSE, FALSE, RepoUpToDate, AnyOrder(RepoUpToDate)),
     MkCheckout(TRUE, TRUE, TRUE, TRUE, FALSE, RepoUpToDate, AnyOrder(RepoUpToDate)),
     MkCheckout(TRUE, TRUE, TRUE, FALSE, TRUE, RepoNoUpstream, AnyOrder(RepoNoUpstream))}

\* status.String() of a status that is not clean
StatusText(co) ==
    IF co.dirty THEN " M file" ELSE ""

(***************************************************************************)
(* run: the values of its locals and of the flags.                         *)
(***************************************************************************)
\* The zero value of ProjectStatus, the status field of an error result.
ZeroProject ==
    NewProject(MkPath(FALSE, <<>>), FALSE, FALSE, FALSE)

\* repoResult{status, err}; "present" is the ok of the map lookup.
NoResult ==
    [present |-> FALSE, status |-> ZeroProject, err |-> ""]

ErrResult(msg) ==
    [present |-> TRUE, status |-> ZeroProject, err |-> msg]

StatusResult(project) ==
    [present |-> TRUE, status |-> project, err |-> ""]

NoCheckout ==
    MkCheckout(FALSE, FALSE, FALSE, FALSE, FALSE, RepoUpToDate, <<>>)

\* A worker that goes on after a failure and stores the project it declared,
\* still the zero value.
Evaluate_zeroOnError(repoPath, co, config, root, stat, clock) ==
    IF ~co.open \/ ~co.worktree \/ ~co.status THEN StatusResult(ZeroProject)
    ELSE LET project == NewProject(repoPath, co.dirty, co.stash,
                                   isUpstreamed(co.repo, co.refs))
             snoozed == ApplySnooze(repoPath, project, config, root, clock)
         IN  IF ProjectClean(project) THEN StatusResult(project)
             ELSE IF snoozed.IsDirty /\ stat
             THEN StatusResult([snoozed EXCEPT !.StatusString = StatusText(co)])
             ELSE StatusResult(snoozed)

\* A worker that takes the status text of every project it found dirty,
\* suppressed or not.
Evaluate_textBeforeSnooze(repoPath, co, config, root, stat, clock) ==
    IF ~co.open THEN ErrResult("opening repo")
    ELSE IF ~co.worktree THEN ErrResult("getting worktree")
    ELSE IF ~co.status THEN ErrResult("getting repo status")
    ELSE LET project == NewProject(repoPath, co.dirty, co.stash,
                                   isUpstreamed(co.repo, co.refs))
             snoozed == ApplySnooze(repoPath, project, config, root, clock)
         IN  IF ProjectClean(project) THEN StatusResult(project)
             ELSE IF project.IsDirty /\ stat
             THEN StatusResult([snoozed EXCEPT !.StatusString = StatusText(co)])
             ELSE StatusResult(snoozed)

\* The worker's body between the admission and the deferred function: the
\* result it stores for the directory it found.
Evaluate(repoPath, co, config, root, stat, clock) ==
    IF ~co.open THEN ErrResult("opening repo")
    ELSE IF ~co.worktree THEN ErrResult("getting worktree")
    ELSE IF ~co.status THEN ErrResult("getting repo status")
    ELSE LET project == NewProject(repoPath, co.dirty, co.stash,
                                   isUpstreamed(co.repo, co.refs))
             snoozed == ApplySnooze(repoPath, project, config, root, clock)
         IN  IF ProjectClean(project) THEN StatusResult(project)
             ELSE IF snoozed.IsDirty /\ stat
             THEN StatusResult([snoozed EXCEPT !.StatusString = StatusText(co)])
             ELSE StatusResult(snoozed)

\* displayProjectStatus with the test of the third mark turned around:
\* the mark only for a dirty project.
StatusLine_dirtyAndNotUpstreamed(project) ==
    LET marks == (IF project.IsDirty THEN <<"dirty">> ELSE <<>>)
                 \o (IF project.HasStash THEN <<"stash">> ELSE <<>>)
                 \o (IF project.IsDirty /\ ~project.Upstreamed
                     THEN <<"not upstreamed">> ELSE <<>>)
        sameAsPath == marks = <<>>
                      /\ SegBytes(Base(project.Path)) = PathBytes(project.Path)
    IN  IF sameAsPath THEN <<>>
        ELSE <<[name |-> Base(project.Path), marks |-> marks, text |-> ""]>>

\* displayProjectStatus: the line it prints, <<>> when it prints none.
StatusLine(project) ==
    LET marks == (IF project.IsDirty THEN <<"dirty">> ELSE <<>>)
                 \o (IF project.HasStash THEN <<"stash">> ELSE <<>>)
                 \o (IF ~project.IsDirty /\ ~project.Upstreamed
                     THEN <<"not upstreamed">> ELSE <<>>)
        sameAsPath == marks = <<>>
                      /\ SegBytes(Base(project.Path)) = PathBytes(project.Path)
    IN  IF sameAsPath THEN <<>>
        ELSE <<[name |-> Base(project.Path), marks |-> marks, text |-> ""]>>

(***************************************************************************)
(* snooze.go: parseSnoozeDuration.  A string is the sequence of its        *)
(* characters.  A time.Duration is an int64 count of nanoseconds: it is    *)
(* kept as hours, seconds and nanoseconds, with the int64 range as a span. *)
(* The strings drawn have no decimal point, so the fraction of             *)
(* time.ParseDuration is left out.                                         *)
(***************************************************************************)
DigitChars ==
    <<"0", "1", "2", "3", "4", "5", "6", "7", "8", "9">>

IsDigit(c) ==
    \E i \in 1..Len(DigitChars) : DigitChars[i] = c

DigitValue(c) ==
    (CHOOSE i \in 1..Len(DigitChars) : DigitChars[i] = c) - 1

\* strings.ToLower, on the letters of the strings drawn
ToLowerChar(c) ==
    CASE c = "D" -> "d"
      [] c = "W" -> "w"
      [] c = "M" -> "m"
      [] c = "Y" -> "y"
      [] c = "H" -> "h"
      [] c = "S" -> "s"
      [] OTHER -> c

ToLower(s) ==
    [i \in 1..Len(s) |-> ToLowerChar(s[i])]

RECURSIVE TrimLeft(_)
TrimLeft(s) ==
    IF s # <<>> /\ Head(s) = " " THEN TrimLeft(Tail(s)) ELSE s

RECURSIVE TrimRight(_)
TrimRight(s) ==
    IF s # <<>> /\ s[Len(s)] = " " THEN TrimRight(SubSeq(s, 1, Len(s) - 1)) ELSE s

\* strings.TrimSpace
TrimSpace(s) ==
    TrimRight(TrimLeft(s))

\* The number of digits a string starts with.
RECURSIVE DigitsLen(_)
DigitsLen(s) ==
    IF s # <<>> /\ IsDigit(Head(s)) THEN 1 + DigitsLen(Tail(s)) ELSE 0

\* The number of characters up to the next digit or point: the unit.
RECURSIVE UnitLen(_)
UnitLen(s) ==
    IF s # <<>> /\ ~IsDigit(Head(s)) /\ Head(s) # "." THEN 1 + UnitLen(Tail(s)) ELSE 0

\* strconv.Atoi and leadingInt, on a string of digits
RECURSIVE Atoi(_, _)
Atoi(s, acc) ==
    IF s = <<>> THEN acc ELSE Atoi(Tail(s), acc * 10 + DigitValue(Head(s)))

MkSpan(hours, secs, nanos) ==
    [hours |-> hours, secs |-> secs, nanos |-> nanos]

\* 1<<63 - 1 nanoseconds
MaxInt64Span ==
    MkSpan(2562047, 2836, 854775807)

FitsInt64(span) ==
    \/ span.hours < MaxInt64Span.hours
    \/ /\ span.hours = MaxInt64Span.hours
       /\ \/ span.secs < MaxInt64Span.secs
          \/ span.secs = MaxInt64Span.secs /\ span.nanos <= MaxInt64Span.nanos

\* time: unitMap
UnitNames ==
    {<<"n", "s">>, <<"u", "s">>, <<"µ", "s">>, <<"m", "s">>, <<"s">>, <<"m">>, <<"h">>}

UnitSpan(unit) ==
    CASE unit = <<"n", "s">> -> MkSpan(0, 0, 1)
      [] unit = <<"u", "s">> -> MkSpan(0, 0, 1000)
      [] unit = <<"µ", "s">> -> MkSpan(0, 0, 1000)
      [] unit = <<"m", "s">> -> MkSpan(0, 0, 1000000)
      [] unit = <<"s">> -> MkSpan(0, 1, 0)
      [] unit = <<"m">> -> MkSpan(0, 60, 0)
      [] unit = <<"h">> -> MkSpan(1, 0, 0)

NormalSpan(hours, secs, nanos) ==
    LET allSecs == secs + nanos \div 1000000000
    IN  MkSpan(hours + allSecs \div 3600, allSecs % 3600, nanos % 1000000000)

Times(n, span) ==
    NormalSpan(n * span.hours, n * span.secs, n * span.nanos)

Plus(a, b) ==
    NormalSpan(a.hours + b.hours, a.secs + b.secs, a.nanos + b.nanos)

\* A time.Duration: a span with its sign, or the value an int64
\* multiplication wrapped around to.
MkDuration(neg, span) ==
    [wrapped |-> FALSE, neg |-> neg /\ span # MkSpan(0, 0, 0), span |-> span]

WrappedDuration ==
    [wrapped |-> TRUE, neg |-> FALSE, span |-> MkSpan(0, 0, 0)]

ZeroDuration ==
    MkDuration(FALSE, MkSpan(0, 0, 0))

\* time.ParseDuration: the loop over the groups of digits and unit
RECURSIVE ParseGroups(_, _)
ParseGroups(s, acc) ==
    IF s = <<>> THEN [ok |-> TRUE, span |-> acc]
    ELSE LET k == DigitsLen(s)
             rest == SubSeq(s, k + 1, Len(s))
             u == UnitLen(rest)
             unit == SubSeq(rest, 1, u)
         IN  IF k = 0 \/ u = 0 \/ unit \notin UnitNames
             THEN [ok |-> FALSE, span |-> acc]
             ELSE LET total == Plus(acc, Times(Atoi(SubSeq(s, 1, k), 0), UnitSpan(unit)))
                  IN  IF ~FitsInt64(total) THEN [ok |-> FALSE, span |-> acc]
                      ELSE ParseGroups(SubSeq(rest, u + 1, Len(rest)), total)

\* time.ParseDuration
ParseDuration(s) ==
    LET signed == s # <<>> /\ Head(s) \in {"-", "+"}
        neg == s # <<>> /\ Head(s) = "-"
        body == IF signed THEN Tail(s) ELSE s
        groups == ParseGroups(body, MkSpan(0, 0, 0))
    IN  IF body = <<"0">> THEN [ok |-> TRUE, d |-> ZeroDuration]
        ELSE IF body = <<>> \/ ~groups.ok THEN [ok |-> FALSE, d |-> ZeroDuration]
        ELSE [ok |-> TRUE, d |-> MkDuration(neg, groups.span)]

\* switch matches[2]: the hours of a day, of a week, of 30 days, of 365 days
CustomUnitHours(unit) ==
    CASE unit = "d" -> 24
      [] unit = "w" -> 24 * 7
      [] unit = "m" -> 24 * 30
      [] unit = "y" -> 24 * 365

\* time.Hour * 24 * ... * time.Duration(value): an int64 product
CustomDuration(unit, value) ==
    LET span == MkSpan(CustomUnitHours(unit) * value, 0, 0)
    IN  IF FitsInt64(span) THEN MkDuration(FALSE, span) ELSE WrappedDuration

\* A parser that takes a string it cannot read for no time at all.
parseSnoozeDuration_lenient(durationStr) ==
    LET s == TrimSpace(ToLower(durationStr))
        std == ParseDuration(s)
    IN  IF std.ok THEN [ok |-> TRUE, d |-> std.d]
        ELSE [ok |-> TRUE, d |-> ZeroDuration]

parseSnoozeDuration(durationStr) ==
    LET s == TrimSpace(ToLower(durationStr))
        std == ParseDuration(s)
        k == DigitsLen(s)
        matches == k >= 1 /\ Len(s) = k + 1 /\ s[k + 1] \in {"d", "w", "m", "y"}
    IN  IF std.ok THEN [ok |-> TRUE, d |-> std.d]
        ELSE IF ~matches THEN [ok |-> FALSE, d |-> ZeroDuration]
        ELSE [ok |-> TRUE, d |-> CustomDuration(s[k + 1], Atoi(SubSeq(s, 1, k), 0))]

(***************************************************************************)
(* snooze.go: the file .goriignore.cue.  The file holds, for each entry,   *)
(* its path and the snooze fields that are not empty (omitempty).          *)
(***************************************************************************)
SnoozeFields ==
    {"dirty_workdir", "stashes", "not_upstreamed"}

FieldOf(snooze, field) ==
    CASE field = "dirty_workdir" -> snooze.DirtyWorkdir
      [] field = "stashes" -> snooze.Stashes
      [] field = "not_upstreamed" -> snooze.NotUpstreamed

\* codec.Decode(config), format.Node: one entry of the document written
EncodeEntry(entry) ==
    [path |-> entry.Path,
     snooze |-> [f \in {g \in SnoozeFields : FieldOf(entry.Snooze, g) # EmptyStamp}
                 |-> FieldOf(entry.Snooze, f)]]

\* val.Decode(&cfg): one entry of the document read
DecodeEntry(e) ==
    LET field(f) == IF f \in DOMAIN e.snooze THEN e.snooze[f] ELSE EmptyStamp
    IN  MkRepoEntry(e.path, MkSnooze(field("dirty_workdir"), field("stashes"),
                                     field("not_upstreamed")))

AbsentStore ==
    [state |-> "absent", repos |-> <<>>]

\* A file that ctx.CompileBytes rejects, and one that val.Decode rejects.
UncompilableStore ==
    [state |-> "uncompilable", repos |-> <<>>]

UndecodableStore ==
    [state |-> "undecodable", repos |-> <<>>]

\* os.WriteFile(ignoreFile, b, 0644)
WrittenStore(config) ==
    [state |-> "written",
     repos |-> [i \in 1..Len(config.Repos) |-> EncodeEntry(config.Repos[i])]]

\* LoadIgnoreConfig that returns what it could read of a file that does not
\* decode, together with the error.
LoadIgnoreConfig_partial(file) ==
    CASE file.state = "absent" -> [config |-> NilConfig, err |-> "reading"]
      [] file.state = "uncompilable" -> [config |-> NilConfig, err |-> "compiling"]
      [] file.state = "undecodable" ->
            [config |-> MkConfig([i \in 1..Len(file.repos)
                                  |-> DecodeEntry(file.repos[i])]),
             err |-> "decoding"]
      [] OTHER -> [config |-> MkConfig([i \in 1..Len(file.repos)
                                        |-> DecodeEntry(file.repos[i])]),
                   err |-> ""]

LoadIgnoreConfig(file) ==
    CASE file.state = "absent" -> [config |-> NilConfig, err |-> "reading"]
      [] file.state = "uncompilable" -> [config |-> NilConfig, err |-> "compiling"]
      [] file.state = "undecodable" -> [config |-> NilConfig, err |-> "decoding"]
      [] OTHER -> [config |-> MkConfig([i \in 1..Len(file.repos)
                                        |-> DecodeEntry(file.repos[i])]),
                   err |-> ""]

(***************************************************************************)
(* snooze.go: SnoozeCheck and getRelativePath.                             *)
(***************************************************************************)
Checks ==
    {"dirty", "stash", "upstream", "all"}

\* A duration in ticks of the clock.
DurationTicks(d) ==
    LET ticks == (d.span.hours * 3600 + d.span.secs) * TicksPerSecond
                 + ((d.span.nanos \div 1000) * TicksPerSecond) \div 1000000
    IN  IF d.neg THEN 0 - ticks ELSE ticks

\* t.Format(time.DateTime): the wall clock of the local zone at instant t, to
\* the second, without the zone.
FormatDateTime(t, zoneOffset) ==
    DateTimeStamp(t \div TicksPerSecond + zoneOffset)

\* The assignments of snoozeUntil to the fields the check selects.
SetKinds(snooze, check, snoozeUntil) ==
    CASE check = "all" -> MkSnooze(snoozeUntil, snoozeUntil, snoozeUntil)
      [] check = "dirty" -> [snooze EXCEPT !.DirtyWorkdir = snoozeUntil]
      [] check = "stash" -> [snooze EXCEPT !.Stashes = snoozeUntil]
      [] check = "upstream" -> [snooze EXCEPT !.NotUpstreamed = snoozeUntil]

\* filepath.Rel of two absolute, cleaned paths
RECURSIVE RelSegs(_, _)
RelSegs(base, targ) ==
    IF base # <<>> /\ targ # <<>> /\ Head(base) = Head(targ)
    THEN RelSegs(Tail(base), Tail(targ))
    ELSE [i \in 1..Len(base) |-> ".."] \o targ

getRelativePath(projectPath, root) ==
    LET segs == RelSegs(Abs(root).segs, Abs(projectPath).segs)
    IN  MkPath(FALSE, IF segs = <<>> THEN <<".">> ELSE segs)

\* The file after SnoozeCheck(project, durationStr, check, scanPath), called
\* at instant clock in a zone of that offset.  The file can be written.
SnoozeCheck(project, durationStr, check, root, file, clock, zoneOffset) ==
    LET loaded == LoadIgnoreConfig(file)
        config == IF loaded.err # "" THEN MkConfig(<<>>) ELSE loaded.config
        parsed == parseSnoozeDuration(durationStr)
        snoozeUntil == FormatDateTime(clock + DurationTicks(parsed.d), zoneOffset)
        found == {i \in 1..Len(config.Repos) : config.Repos[i].Path = project.Path}
        first == CHOOSE i \in found : \A k \in found : i <= k
        newRepo == MkRepoEntry(getRelativePath(project.Path, root),
                               SetKinds(MkSnooze(EmptyStamp, EmptyStamp, EmptyStamp),
                                        check, snoozeUntil))
    IN  IF check \notin Checks \/ ~parsed.ok THEN file
        ELSE IF found # {}
        THEN WrittenStore(MkConfig([config.Repos EXCEPT ![first].Snooze =
                                       SetKinds(@, check, snoozeUntil)]))
        ELSE WrittenStore(MkConfig(Append(config.Repos, newRepo)))

(***************************************************************************)
(* State.                                                                  *)
(***************************************************************************)
VARIABLES
    scanPath,        \* run: scanPath; ApplySnooze: scanPath
    now,             \* the clock time.Now() reads
    showChanges,     \* the --stat flag
    concurrency,     \* the --concurrency flag
    ignoreConfig,    \* run: ignoreConfig
    repoPaths,       \* run: repoPaths, after slices.Sort
    fed,             \* feeder goroutine: how many paths it has dispatched
    sem,             \* len(sem), the permits taken
    wpc,             \* per path: where its worker goroutine is
    checkout,        \* per path: what its worker found on disk
    outcome,         \* per path: the result its worker is about to store
    results,         \* run: results
    done,            \* run: done
    mu,              \* run: mu, who holds it
    cidx,            \* consumer loop: index into repoPaths
    cpc,             \* consumer loop: where it is
    stdout,          \* the lines the consumer has printed
    projectsToVisit, \* run: projectsToVisit
    repo,            \* SpecGit: the repository
    ret,             \* SpecGit: the last call and what it returned
    snRepoPath,      \* SpecSnooze: repoPath
    snNil,           \* SpecSnooze: config == nil
    snBefore,        \* SpecSnooze: *project when ApplySnooze was called
    snProject,       \* SpecSnooze: *project
    snEntry,         \* SpecSnooze: the entry of the last iteration
    snCount,         \* SpecSnooze: iterations done
    snPc,            \* SpecSnooze: where ApplySnooze is
    hang,            \* the path whose evaluation never returns, 0 for none
    store,           \* the file .goriignore.cue of the scanned directory
    zone,            \* time.Local: its offset from UTC, in seconds
    stCall,          \* SpecStore: the last call of SnoozeCheck
    stCalls,         \* SpecStore: how many calls were made
    stApplied,       \* SpecStore: the last evaluation against the store
    durIn,           \* SpecDuration: the string given to parseSnoozeDuration
    durRet           \* SpecDuration: what parseSnoozeDuration returned

commonVars ==
    <<scanPath, now>>

scanVars ==
    <<hang, showChanges, concurrency, ignoreConfig, repoPaths, fed, sem, wpc, checkout,
      outcome, results, done, mu, cidx, cpc, stdout, projectsToVisit>>

gitVars ==
    <<repo, ret>>

snoozeVars ==
    <<snRepoPath, snNil, snBefore, snProject, snEntry, snCount, snPc>>

storeVars ==
    <<store, zone, stCall, stCalls, stApplied>>

durationVars ==
    <<durIn, durRet>>

vars ==
    <<commonVars, scanVars, gitVars, snoozeVars, storeVars, durationVars>>

(***************************************************************************)
(* The parts of the state a specification does not use.                    *)
(***************************************************************************)
NoRet ==
    [fn |-> "none", localBranch |-> "", remoteBranch |-> "", refs |-> <<>>,
     val |-> FALSE, name |-> "", err |-> ErrNil,
     calls |-> <<>>, out |-> <<>>, errs |-> <<>>]

NoEntry ==
    MkRepoEntry(MkPath(FALSE, <<>>), MkSnooze(EmptyStamp, EmptyStamp, EmptyStamp))

NoCall ==
    [made |-> FALSE, path |-> MkPath(FALSE, <<>>), check |-> "", duration |-> <<>>,
     at |-> 0, before |-> AbsentStore, wrote |-> FALSE]

NoApplied ==
    [made |-> FALSE, at |-> 0, project |-> ZeroProject]

StoreSessionIdle ==
    /\ zone = 0
    /\ stCall = NoCall
    /\ stCalls = 0
    /\ stApplied = NoApplied

StoreIdle ==
    /\ store = AbsentStore
    /\ StoreSessionIdle

NoDurationRet ==
    [called |-> FALSE, ok |-> FALSE, d |-> ZeroDuration]

DurationIdle ==
    /\ durIn = [class |-> "none", unit |-> "", count |-> 0, text |-> <<>>]
    /\ durRet = NoDurationRet

GitIdle ==
    /\ repo = RepoUpToDate
    /\ ret = NoRet

SnoozeIdle ==
    /\ snRepoPath = MkPath(FALSE, <<>>)
    /\ snNil = TRUE
    /\ snBefore = ZeroProject
    /\ snProject = ZeroProject
    /\ snEntry = NoEntry
    /\ snCount = 0
    /\ snPc = "idle"

ScanIdle ==
    /\ hang = 0
    /\ showChanges = FALSE
    /\ concurrency = 0
    /\ ignoreConfig = NilConfig
    /\ repoPaths = <<>>
    /\ fed = 0
    /\ sem = 0
    /\ wpc = <<>>
    /\ checkout = <<>>
    /\ outcome = <<>>
    /\ results = <<>>
    /\ done = <<>>
    /\ mu = [held |-> FALSE, by |-> "", path |-> 0]
    /\ cidx = 1
    /\ cpc = "end"
    /\ stdout = <<>>
    /\ projectsToVisit = <<>>

(***************************************************************************)
(* Go maps: a function on the keys put so far; a missing key reads as the  *)
(* zero value.                                                             *)
(***************************************************************************)
EmptyMap ==
    [k \in {} |-> FALSE]

MapPut(m, key, v) ==
    [k \in DOMAIN m \cup {key} |-> IF k = key THEN v ELSE m[k]]

\* done[repoPath]
DoneAt(m, key) ==
    key \in DOMAIN m /\ m[key]

\* result, ok := results[repoPath]
ResultAt(m, key) ==
    IF key \in DOMAIN m THEN m[key] ELSE NoResult

(***************************************************************************)
(* Spec: run.  Init is the state when the feeder goroutine is started:     *)
(* the flags are parsed, the ignore file is loaded, the directory is read  *)
(* and repoPaths is sorted.                                                *)
(***************************************************************************)
\* The scan root of the scans: the default, "./".
ScanRoots ==
    {MkPath(FALSE, <<".">>)}

\* os.ReadDir: entries with distinct names, directories or not.  The order
\* of the listing is left open; run sorts.
Listings ==
    UNION {{l \in [1..n -> [name : DirNames, isDir : BOOLEAN]] :
               \A i, j \in 1..n : i # j => l[i].name # l[j].name} : n \in 0..MaxDirs}

RECURSIVE DirPaths(_, _)
\* The loop over files that appends filepath.Join(scanPath, file.Name()).
DirPaths(listing, root) ==
    IF listing = <<>> THEN <<>>
    ELSE (IF Head(listing).isDir
          THEN <<Join(root, MkPath(FALSE, <<Head(listing).name>>))>>
          ELSE <<>>)
         \o DirPaths(Tail(listing), root)

Unlocked ==
    [held |-> FALSE, by |-> "", path |-> 0]

LockedBy(who, i) ==
    [held |-> TRUE, by |-> who, path |-> i]

\* The ignore files of the scans: none, and one that snoozes every finding
\* of "b" to the last second of the model and holds an expired entry of "a".
ScanConfigs ==
    {NilConfig,
     MkConfig(<<MkRepoEntry(MkPath(FALSE, <<"b">>),
                            MkSnooze(DateTimeStamp(MaxWall), DateTimeStamp(MaxWall),
                                     DateTimeStamp(MaxWall))),
                MkRepoEntry(MkPath(FALSE, <<"a">>),
                            MkSnooze(DateTimeStamp(0), EmptyStamp, GarbageStamp))>>)}

\* The files run can find in the scanned directory: none, or one that holds
\* a configuration.
ScanStores ==
    {AbsentStore} \cup {WrittenStore(c) : c \in ScanConfigs \ {NilConfig}}

\* run, from os.ReadDir to the start of the feeder, for any listing.
ScanStart ==
    /\ scanPath \in ScanRoots
    /\ now = 0
    /\ \E listing \in Listings : repoPaths = SortPaths(DirPaths(listing, scanPath))
    /\ fed = 0
    /\ sem = 0
    /\ wpc = [i \in 1..Len(repoPaths) |-> "unborn"]
    /\ checkout = [i \in 1..Len(repoPaths) |-> NoCheckout]
    /\ outcome = [i \in 1..Len(repoPaths) |-> NoResult]
    /\ results = EmptyMap
    /\ done = EmptyMap
    /\ mu = Unlocked
    /\ cidx = 1
    /\ cpc = IF repoPaths = <<>> THEN "end" ELSE "lock"
    /\ stdout = <<>>
    /\ projectsToVisit = <<>>
    /\ GitIdle
    /\ SnoozeIdle
    /\ StoreSessionIdle
    /\ DurationIdle

ScanInit ==
    /\ showChanges \in BOOLEAN
    /\ concurrency \in 0..MaxConcurrency
    /\ store \in ScanStores
    /\ ignoreConfig = LoadIgnoreConfig(store).config
    /\ hang = 0
    /\ ScanStart

Workers ==
    1..Len(repoPaths)

\* A feeder that starts a worker for every path without waiting for a permit.
Feed_unbounded ==
    /\ fed < Len(repoPaths)
    /\ sem' = sem + 1
    /\ fed' = fed + 1
    /\ wpc' = [wpc EXCEPT ![fed + 1] = "evaluate"]
    /\ UNCHANGED <<hang, showChanges, concurrency, ignoreConfig, repoPaths, checkout, outcome,
                   results, done, mu, cidx, cpc, stdout, projectsToVisit>>
    /\ UNCHANGED <<commonVars, gitVars, snoozeVars, storeVars, durationVars>>

\* A feeder whose channel holds one permit at the least.
Feed_atLeastOne ==
    /\ fed < Len(repoPaths)
    /\ sem < concurrency \/ sem = 0
    /\ sem' = sem + 1
    /\ fed' = fed + 1
    /\ wpc' = [wpc EXCEPT ![fed + 1] = "evaluate"]
    /\ UNCHANGED <<hang, showChanges, concurrency, ignoreConfig, repoPaths, checkout, outcome,
                   results, done, mu, cidx, cpc, stdout, projectsToVisit>>
    /\ UNCHANGED <<commonVars, gitVars, snoozeVars, storeVars, durationVars>>

\* The feeder goroutine: sem <- struct{}{} and go func(repoPath).  The send
\* blocks while the channel holds "concurrency" permits.
Feed ==
    /\ fed < Len(repoPaths)
    /\ sem < concurrency
    /\ sem' = sem + 1
    /\ fed' = fed + 1
    /\ wpc' = [wpc EXCEPT ![fed + 1] = "evaluate"]
    /\ UNCHANGED <<hang, showChanges, concurrency, ignoreConfig, repoPaths, checkout, outcome,
                   results, done, mu, cidx, cpc, stdout, projectsToVisit>>
    /\ UNCHANGED <<commonVars, gitVars, snoozeVars, storeVars, durationVars>>

\* Worker: PlainOpen, Worktree, Status, NewProject, ApplySnooze, up to the
\* mu.Lock() before it stores its result.
WorkerEvaluate(i) ==
    /\ wpc[i] = "evaluate"
    /\ hang # i
    /\ \E co \in ScanCheckouts :
          /\ checkout' = [checkout EXCEPT ![i] = co]
          /\ outcome' = [outcome EXCEPT ![i] =
                            Evaluate(repoPaths[i], co, ignoreConfig, scanPath,
                                     showChanges, now)]
    /\ wpc' = [wpc EXCEPT ![i] = "lock result"]
    /\ UNCHANGED <<hang, showChanges, concurrency, ignoreConfig, repoPaths, fed, sem,
                   results, done, mu, cidx, cpc, stdout, projectsToVisit>>
    /\ UNCHANGED <<commonVars, gitVars, snoozeVars, storeVars, durationVars>>

\* A worker that goes on to its write without waiting for the mutex.
WorkerLockResult_noExclusion(i) ==
    /\ wpc[i] = "lock result"
    /\ mu' = LockedBy("worker", i)
    /\ wpc' = [wpc EXCEPT ![i] = "store result"]
    /\ UNCHANGED <<hang, showChanges, concurrency, ignoreConfig, repoPaths, fed, sem, checkout,
                   outcome, results, done, cidx, cpc, stdout, projectsToVisit>>
    /\ UNCHANGED <<commonVars, gitVars, snoozeVars, storeVars, durationVars>>

\* Worker: mu.Lock() before results[repoPath] = ...
WorkerLockResult(i) ==
    /\ wpc[i] = "lock result"
    /\ ~mu.held
    /\ mu' = LockedBy("worker", i)
    /\ wpc' = [wpc EXCEPT ![i] = "store result"]
    /\ UNCHANGED <<hang, showChanges, concurrency, ignoreConfig, repoPaths, fed, sem, checkout,
                   outcome, results, done, cidx, cpc, stdout, projectsToVisit>>
    /\ UNCHANGED <<commonVars, gitVars, snoozeVars, storeVars, durationVars>>

\* A worker that publishes its result in a map of its own making.
WorkerStoreResult_freshMap(i) ==
    /\ wpc[i] = "store result"
    /\ results' = MapPut(EmptyMap, repoPaths[i], outcome[i])
    /\ mu' = Unlocked
    /\ wpc' = [wpc EXCEPT ![i] = "release"]
    /\ UNCHANGED <<hang, showChanges, concurrency, ignoreConfig, repoPaths, fed, sem, checkout,
                   outcome, done, cidx, cpc, stdout, projectsToVisit>>
    /\ UNCHANGED <<commonVars, gitVars, snoozeVars, storeVars, durationVars>>

\* A worker that returns without an entry when it has only an error to
\* report.
WorkerStoreResult_statusOnly(i) ==
    /\ wpc[i] = "store result"
    /\ results' = IF outcome[i].err = "" THEN MapPut(results, repoPaths[i], outcome[i])
                  ELSE results
    /\ mu' = Unlocked
    /\ wpc' = [wpc EXCEPT ![i] = "release"]
    /\ UNCHANGED <<hang, showChanges, concurrency, ignoreConfig, repoPaths, fed, sem, checkout,
                   outcome, done, cidx, cpc, stdout, projectsToVisit>>
    /\ UNCHANGED <<commonVars, gitVars, snoozeVars, storeVars, durationVars>>

\* Worker: results[repoPath] = repoResult{...}; mu.Unlock(); the body returns.
WorkerStoreResult(i) ==
    /\ wpc[i] = "store result"
    /\ results' = MapPut(results, repoPaths[i], outcome[i])
    /\ mu' = Unlocked
    /\ wpc' = [wpc EXCEPT ![i] = "release"]
    /\ UNCHANGED <<hang, showChanges, concurrency, ignoreConfig, repoPaths, fed, sem, checkout,
                   outcome, done, cidx, cpc, stdout, projectsToVisit>>
    /\ UNCHANGED <<commonVars, gitVars, snoozeVars, storeVars, durationVars>>

\* Worker, deferred: <-sem
WorkerRelease(i) ==
    /\ wpc[i] = "release"
    /\ sem > 0
    /\ sem' = sem - 1
    /\ wpc' = [wpc EXCEPT ![i] = "lock done"]
    /\ UNCHANGED <<hang, showChanges, concurrency, ignoreConfig, repoPaths, fed, checkout,
                   outcome, results, done, mu, cidx, cpc, stdout,
                   projectsToVisit>>
    /\ UNCHANGED <<commonVars, gitVars, snoozeVars, storeVars, durationVars>>

\* Worker, deferred: mu.Lock()
WorkerLockDone(i) ==
    /\ wpc[i] = "lock done"
    /\ ~mu.held
    /\ mu' = LockedBy("worker", i)
    /\ wpc' = [wpc EXCEPT ![i] = "set done"]
    /\ UNCHANGED <<hang, showChanges, concurrency, ignoreConfig, repoPaths, fed, sem, checkout,
                   outcome, results, done, cidx, cpc, stdout, projectsToVisit>>
    /\ UNCHANGED <<commonVars, gitVars, snoozeVars, storeVars, durationVars>>

\* A worker that unlocks without publishing its completion flag.
WorkerSetDone_noFlag(i) ==
    /\ wpc[i] = "set done"
    /\ mu' = Unlocked
    /\ wpc' = [wpc EXCEPT ![i] = "broadcast"]
    /\ UNCHANGED <<hang, showChanges, concurrency, ignoreConfig, repoPaths, fed, sem, checkout,
                   outcome, results, done, cidx, cpc, stdout, projectsToVisit>>
    /\ UNCHANGED <<commonVars, gitVars, snoozeVars, storeVars, durationVars>>

\* Worker, deferred: done[repoPath] = true; mu.Unlock()
WorkerSetDone(i) ==
    /\ wpc[i] = "set done"
    /\ done' = MapPut(done, repoPaths[i], TRUE)
    /\ mu' = Unlocked
    /\ wpc' = [wpc EXCEPT ![i] = "broadcast"]
    /\ UNCHANGED <<hang, showChanges, concurrency, ignoreConfig, repoPaths, fed, sem, checkout,
                   outcome, results, cidx, cpc, stdout, projectsToVisit>>
    /\ UNCHANGED <<commonVars, gitVars, snoozeVars, storeVars, durationVars>>

\* A broadcast that reaches nobody.
WorkerBroadcast_lost(i) ==
    /\ wpc[i] = "broadcast"
    /\ wpc' = [wpc EXCEPT ![i] = "exited"]
    /\ UNCHANGED <<hang, showChanges, concurrency, ignoreConfig, repoPaths, fed, sem, checkout,
                   outcome, results, done, mu, cidx, cpc, stdout, projectsToVisit>>
    /\ UNCHANGED <<commonVars, gitVars, snoozeVars, storeVars, durationVars>>

\* Worker, deferred: cond.Broadcast() wakes the consumer if it waits.
WorkerBroadcast(i) ==
    /\ wpc[i] = "broadcast"
    /\ cpc' = IF cpc = "wait" THEN "woken" ELSE cpc
    /\ wpc' = [wpc EXCEPT ![i] = "exited"]
    /\ UNCHANGED <<hang, showChanges, concurrency, ignoreConfig, repoPaths, fed, sem, checkout,
                   outcome, results, done, mu, cidx, stdout, projectsToVisit>>
    /\ UNCHANGED <<commonVars, gitVars, snoozeVars, storeVars, durationVars>>

\* Consumer: mu.Lock() at the top of the loop body, or on the way out of
\* cond.Wait().
ConsumerLock ==
    /\ cpc \in {"lock", "woken"}
    /\ ~mu.held
    /\ mu' = LockedBy("consumer", 0)
    /\ cpc' = "check"
    /\ UNCHANGED <<hang, showChanges, concurrency, ignoreConfig, repoPaths, fed, sem, wpc,
                   checkout, outcome, results, done, cidx, stdout,
                   projectsToVisit>>
    /\ UNCHANGED <<commonVars, gitVars, snoozeVars, storeVars, durationVars>>

\* A consumer that gives up on a path whose flag is not set and moves on.
ConsumerWait_skips ==
    /\ cpc = "check"
    /\ ~DoneAt(done, repoPaths[cidx])
    /\ mu' = Unlocked
    /\ cidx' = cidx + 1
    /\ cpc' = IF cidx = Len(repoPaths) THEN "end" ELSE "lock"
    /\ UNCHANGED <<hang, showChanges, concurrency, ignoreConfig, repoPaths, fed, sem, wpc,
                   checkout, outcome, results, done, stdout, projectsToVisit>>
    /\ UNCHANGED <<commonVars, gitVars, snoozeVars, storeVars, durationVars>>

\* Consumer: !done[repoPath], so cond.Wait(): unlock and sleep.
ConsumerWait ==
    /\ cpc = "check"
    /\ ~DoneAt(done, repoPaths[cidx])
    /\ mu' = Unlocked
    /\ cpc' = "wait"
    /\ UNCHANGED <<hang, showChanges, concurrency, ignoreConfig, repoPaths, fed, sem, wpc,
                   checkout, outcome, results, done, cidx, stdout,
                   projectsToVisit>>
    /\ UNCHANGED <<commonVars, gitVars, snoozeVars, storeVars, durationVars>>

\* What the consumer prints for a result: the status line and, with --stat,
\* the status text of a dirty project.
Printed(result, stat) ==
    IF result.present /\ result.err = ""
       /\ (result.status.IsDirty \/ result.status.HasStash \/ ~result.status.Upstreamed)
    THEN StatusLine(result.status)
         \o (IF result.status.IsDirty /\ stat
             THEN <<[name |-> "", marks |-> <<>>, text |-> result.status.StatusString]>>
             ELSE <<>>)
    ELSE <<>>

\* A consumer that puts every project it was given on the list.
Visited_all(result) ==
    IF result.present /\ result.err = ""
    THEN <<result.status>>
    ELSE <<>>

\* What the consumer appends to projectsToVisit for a result.
Visited(result) ==
    IF result.present /\ result.err = ""
       /\ (result.status.IsDirty \/ result.status.HasStash \/ ~result.status.Upstreamed)
    THEN <<result.status>>
    ELSE <<>>

\* Consumer: done[repoPath], so result, ok := results[repoPath]; mu.Unlock();
\* then the rest of the loop body, which touches the consumer's own data
\* only, and on to the next path.
ConsumerTake ==
    /\ cpc = "check"
    /\ DoneAt(done, repoPaths[cidx])
    /\ mu' = Unlocked
    /\ LET result == ResultAt(results, repoPaths[cidx])
       IN  /\ stdout' = stdout \o Printed(result, showChanges)
           /\ projectsToVisit' = projectsToVisit \o Visited(result)
    /\ cidx' = cidx + 1
    /\ cpc' = IF cidx = Len(repoPaths) THEN "end" ELSE "lock"
    /\ UNCHANGED <<hang, showChanges, concurrency, ignoreConfig, repoPaths, fed, sem, wpc,
                   checkout, outcome, results, done>>
    /\ UNCHANGED <<commonVars, gitVars, snoozeVars, storeVars, durationVars>>

ScanNext ==
    \/ Feed
    \/ \E i \in Workers : WorkerEvaluate(i)
    \/ \E i \in Workers : WorkerLockResult(i)
    \/ \E i \in Workers : WorkerStoreResult(i)
    \/ \E i \in Workers : WorkerRelease(i)
    \/ \E i \in Workers : WorkerLockDone(i)
    \/ \E i \in Workers : WorkerSetDone(i)
    \/ \E i \in Workers : WorkerBroadcast(i)
    \/ ConsumerLock
    \/ ConsumerWait
    \/ ConsumerTake

Spec ==
    ScanInit /\ [][ScanNext]_vars

(***************************************************************************)
(* SpecNoStore: the scan when LoadIgnoreConfig fails: the file is absent,  *)
(* does not compile or does not decode.                                    *)
(***************************************************************************)
\* The files LoadIgnoreConfig fails on: none, and the entries of ScanConfigs
\* in a file that does not compile or does not decode.
FailingStores ==
    {AbsentStore}
    \cup {[WrittenStore(c) EXCEPT !.state = st] :
             st \in {"uncompilable", "undecodable"}, c \in ScanConfigs \ {NilConfig}}

NoStoreInit ==
    /\ showChanges = FALSE
    /\ concurrency \in 0..MaxConcurrency
    /\ store \in FailingStores
    /\ ignoreConfig = LoadIgnoreConfig(store).config
    /\ hang = 0
    /\ ScanStart

SpecNoStore ==
    NoStoreInit /\ [][ScanNext]_vars

(***************************************************************************)
(* SpecHang: the scan when the evaluation of one directory never returns.  *)
(* The goroutines are scheduled fairly and sync.Mutex starves nobody, so   *)
(* a goroutine that can take a step again and again takes it.              *)
(***************************************************************************)
HangInit ==
    /\ showChanges = FALSE
    /\ concurrency \in 1..MaxConcurrency
    /\ store = AbsentStore
    /\ ignoreConfig = LoadIgnoreConfig(store).config
    /\ ScanStart
    /\ hang \in Workers

WorkerStep(i) ==
    \/ WorkerEvaluate(i)
    \/ WorkerLockResult(i)
    \/ WorkerStoreResult(i)
    \/ WorkerRelease(i)
    \/ WorkerLockDone(i)
    \/ WorkerSetDone(i)
    \/ WorkerBroadcast(i)

ConsumerStep ==
    \/ ConsumerLock
    \/ ConsumerWait
    \/ ConsumerTake

ScanFairness ==
    /\ WF_vars(Feed)
    /\ \A i \in 1..MaxDirs : SF_vars(i \in Workers /\ WorkerStep(i))
    /\ SF_vars(ConsumerStep)

SpecHang ==
    HangInit /\ [][ScanNext]_vars /\ ScanFairness

(***************************************************************************)
(* SpecFair: the scan when every evaluation returns, under the same        *)
(* scheduling, with a limit of 0, a channel without a buffer, and with the *)
(* largest limit, under which the feeder may start a worker at any time a  *)
(* smaller limit lets it.                                                  *)
(***************************************************************************)
FairInit ==
    /\ showChanges = FALSE
    /\ concurrency \in {0, MaxConcurrency}
    /\ store = AbsentStore
    /\ ignoreConfig = LoadIgnoreConfig(store).config
    /\ ScanStart
    /\ hang = 0

SpecFair ==
    FairInit /\ [][ScanNext]_vars /\ ScanFairness

(***************************************************************************)
(* SpecGit: the upstream functions of cmd/gori.go, called on every         *)
(* repository of the bounds.  They read the repository and change nothing. *)
(***************************************************************************)
GitInit ==
    /\ scanPath = MkPath(FALSE, <<".">>)
    /\ now = 0
    /\ \E pm \in ParentMaps, h \in LocalBranches \cup {"HEAD"}, l \in 0..MaxCommits,
          rm \in [RemoteBranches -> 0..MaxCommits] :
          /\ h = "HEAD" => l # 0
          /\ repo = MkRepo(pm, h, l, rm)
    /\ ret = NoRet
    /\ ScanIdle
    /\ SnoozeIdle
    /\ StoreIdle
    /\ DurationIdle

CallIsBranchUpstreamed ==
    /\ ret = NoRet
    /\ \E l \in LocalBranches, r \in RemoteBranches :
          LET got == isBranchUpstreamed(repo, l, r)
          IN  ret' = [NoRet EXCEPT !.fn = "isBranchUpstreamed", !.localBranch = l,
                                   !.remoteBranch = r, !.val = got.val, !.err = got.err]
    /\ UNCHANGED <<repo, commonVars, scanVars, snoozeVars, storeVars, durationVars>>

CallGetLikelyUpstreamMainishBranch ==
    /\ ret = NoRet
    /\ \E o \in ReferenceOrders(repo) :
          LET got == getLikelyUpstreamMainishBranch(o)
          IN  ret' = [NoRet EXCEPT !.fn = "getLikelyUpstreamMainishBranch", !.refs = o,
                                   !.name = got.val, !.err = got.err]
    /\ UNCHANGED <<repo, commonVars, scanVars, snoozeVars, storeVars, durationVars>>

CallIsUpstreamed ==
    /\ ret = NoRet
    /\ \E o \in ReferenceOrders(repo) :
          LET steps == isUpstreamedSteps(repo, o)
          IN  ret' = [NoRet EXCEPT !.fn = "isUpstreamed", !.refs = o,
                                   !.val = isUpstreamed(repo, o),
                                   !.calls = steps.calls, !.out = steps.out,
                                   !.errs = steps.errs]
    /\ UNCHANGED <<repo, commonVars, scanVars, snoozeVars, storeVars, durationVars>>

GitNext ==
    \/ CallIsBranchUpstreamed
    \/ CallGetLikelyUpstreamMainishBranch
    \/ CallIsUpstreamed

SpecGit ==
    GitInit /\ [][GitNext]_vars

(***************************************************************************)
(* SpecSnooze: ApplySnooze on a project NewProject has just made, for      *)
(* every scan root, clock and entry of the bounds.  A step is the nil      *)
(* check, the path comparison of one iteration of the loop over            *)
(* config.Repos, one of its three checks, or the return.  The entries are  *)
(* drawn as the loop reads them: the path when the iteration starts, each  *)
(* timestamp when its check reads it; at most MaxEntries entries.          *)
(***************************************************************************)
\* The scan roots of the snooze store: "./" and "/w/c".
SnoozeRoots ==
    {MkPath(FALSE, <<".">>), MkPath(TRUE, <<"w", "c">>)}

\* The paths of the entries: "a", "./a", "b", "../a".
EntryPaths ==
    {MkPath(FALSE, <<"a">>), MkPath(FALSE, <<".", "a">>), MkPath(FALSE, <<"b">>),
     MkPath(FALSE, <<"..", "a">>)}

SnoozeInit ==
    /\ scanPath \in SnoozeRoots
    /\ now \in Instants
    /\ snRepoPath = Join(scanPath, MkPath(FALSE, <<"a">>))
    /\ snNil \in BOOLEAN
    /\ \E d \in BOOLEAN, s \in BOOLEAN, u \in BOOLEAN :
          /\ snBefore = NewProject(snRepoPath, d, s, u)
          /\ snProject = snBefore
    /\ snEntry = NoEntry
    /\ snCount = 0
    /\ snPc = "call"
    /\ ScanIdle
    /\ GitIdle
    /\ StoreIdle
    /\ DurationIdle

\* if config == nil { return }
SnoozeNilReturn ==
    /\ snPc = "call"
    /\ snNil
    /\ snPc' = "returned"
    /\ UNCHANGED <<snRepoPath, snNil, snBefore, snProject, snEntry, snCount>>
    /\ UNCHANGED <<commonVars, scanVars, gitVars, storeVars, durationVars>>

\* The next entry of config.Repos: if resolvedPath == absRepoPath
SnoozeEnter ==
    /\ snPc \in {"call", "loop"}
    /\ ~snNil
    /\ snCount < MaxEntries
    /\ \E path \in EntryPaths :
          LET entry == MkRepoEntry(path, NoEntry.Snooze)
          IN  /\ snEntry' = entry
              /\ snPc' = IF EntryMatches(snRepoPath, entry, scanPath)
                         THEN "dirty" ELSE "loop"
    /\ snCount' = snCount + 1
    /\ UNCHANGED <<snRepoPath, snNil, snBefore, snProject>>
    /\ UNCHANGED <<commonVars, scanVars, gitVars, storeVars, durationVars>>

\* The check of repo.Snooze.DirtyWorkdir
SnoozeCheckDirty ==
    /\ snPc = "dirty"
    /\ \E stamp \in Stamps :
          /\ snEntry' = [snEntry EXCEPT !.Snooze.DirtyWorkdir = stamp]
          /\ snProject' = SnoozeDirty(snProject, stamp, now)
    /\ snPc' = "stash"
    /\ UNCHANGED <<snRepoPath, snNil, snBefore, snCount>>
    /\ UNCHANGED <<commonVars, scanVars, gitVars, storeVars, durationVars>>

\* The check of repo.Snooze.Stashes
SnoozeCheckStash ==
    /\ snPc = "stash"
    /\ \E stamp \in Stamps :
          /\ snEntry' = [snEntry EXCEPT !.Snooze.Stashes = stamp]
          /\ snProject' = SnoozeStash(snProject, stamp, now)
    /\ snPc' = "upstreamed"
    /\ UNCHANGED <<snRepoPath, snNil, snBefore, snCount>>
    /\ UNCHANGED <<commonVars, scanVars, gitVars, storeVars, durationVars>>

\* The check of repo.Snooze.NotUpstreamed, the last of the iteration
SnoozeCheckUpstreamed ==
    /\ snPc = "upstreamed"
    /\ \E stamp \in Stamps :
          /\ snEntry' = [snEntry EXCEPT !.Snooze.NotUpstreamed = stamp]
          /\ snProject' = SnoozeUpstreamed(snProject, stamp, now)
    /\ snPc' = "loop"
    /\ UNCHANGED <<snRepoPath, snNil, snBefore, snCount>>
    /\ UNCHANGED <<commonVars, scanVars, gitVars, storeVars, durationVars>>

\* The loop has met every entry: ApplySnooze returns.
SnoozeReturn ==
    /\ snPc \in {"call", "loop"}
    /\ ~snNil
    /\ snPc' = "returned"
    /\ UNCHANGED <<snRepoPath, snNil, snBefore, snProject, snEntry, snCount>>
    /\ UNCHANGED <<commonVars, scanVars, gitVars, storeVars, durationVars>>

SnoozeNext ==
    \/ SnoozeNilReturn
    \/ SnoozeEnter
    \/ SnoozeCheckDirty
    \/ SnoozeCheckStash
    \/ SnoozeCheckUpstreamed
    \/ SnoozeReturn

SpecSnooze ==
    SnoozeInit /\ [][SnoozeNext]_vars

(***************************************************************************)
(* SpecDuration: parseSnoozeDuration on a string: an integer with one of   *)
(* the units, bare or in capitals between spaces, or a string that is      *)
(* neither.  The counts go up to MaxCount and include, for each unit of    *)
(* the regular expression, the last that fits an int64 and the next.       *)
(***************************************************************************)
CustomUnits ==
    {"d", "w", "m", "y"}

BoundaryCounts ==
    UNION {{MaxInt64Span.hours \div CustomUnitHours(u),
            MaxInt64Span.hours \div CustomUnitHours(u) + 1} : u \in CustomUnits}

RECURSIVE Digits(_)
Digits(n) ==
    IF n < 10 THEN <<DigitChars[n + 1]>>
    ELSE Digits(n \div 10) \o <<DigitChars[(n % 10) + 1]>>

Capital(u) ==
    CASE u = "d" -> "D"
      [] u = "w" -> "W"
      [] u = "m" -> "M"
      [] u = "y" -> "Y"

MkDurationInput(class, unit, count, text) ==
    [class |-> class, unit |-> unit, count |-> count, text |-> text]

DurationInputs ==
    {MkDurationInput("custom", u, n, Digits(n) \o <<u>>) :
        n \in (0..MaxCount) \cup BoundaryCounts, u \in CustomUnits}
    \cup {MkDurationInput("custom", u, n, <<" ">> \o Digits(n) \o <<Capital(u), " ">>) :
             n \in 0..MaxCount, u \in CustomUnits}
    \cup {MkDurationInput("standard", u[1], n, Digits(n) \o u) :
             n \in 0..MaxCount, u \in UnitNames \ {<<"m">>}}
    \cup {MkDurationInput("standard", "h", n, Digits(n) \o <<"h">> \o Digits(n) \o <<"s">>) :
             n \in 0..MaxCount}
    \cup {MkDurationInput("neither", "", 0, text) :
             text \in {<<>>, <<" ">>, <<"b", "o", "g", "u", "s">>, <<"2">>, <<"d">>,
                       <<"2", "x">>, <<"2", "d", "d">>, <<"-", "2", "d">>,
                       <<"+", "2", "w">>, <<"2", " ", "d">>, <<"d", "2">>,
                       <<"1", "h", "2", "d">>, <<"1", "y", "2", "h">>, <<"h">>}}

DurationInit ==
    /\ durIn \in DurationInputs
    /\ durRet = NoDurationRet
    /\ scanPath = MkPath(FALSE, <<".">>)
    /\ now = 0
    /\ ScanIdle
    /\ GitIdle
    /\ SnoozeIdle
    /\ StoreIdle

CallParseSnoozeDuration ==
    /\ ~durRet.called
    /\ LET got == parseSnoozeDuration(durIn.text)
       IN  durRet' = [called |-> TRUE, ok |-> got.ok, d |-> got.d]
    /\ UNCHANGED <<durIn, commonVars, scanVars, gitVars, snoozeVars, storeVars>>

DurationNext ==
    \/ CallParseSnoozeDuration

SpecDuration ==
    DurationInit /\ [][DurationNext]_vars

(***************************************************************************)
(* SpecStore: the store over time.  SnoozeCheck is called from             *)
(* visitProjects for a project of the scanned directory, the clock         *)
(* advances, and a later scan applies the store to a project whose three   *)
(* findings are bad.                                                       *)
(***************************************************************************)
StoreRoots ==
    {MkPath(FALSE, <<".">>), MkPath(TRUE, <<"w", "c">>)}

\* TZ: UTC, and a zone one second to either side of it.
ZoneOffsets ==
    {0 - 1, 0, 1}

StoreProjects ==
    {"a", "b"}

\* "1s" and "bogus"
StoreDurations ==
    {<<"1", "s">>, <<"b", "o", "g", "u", "s">>}

\* The files the first call can find: none, and one written with entries
\* for "a" and "b".
InitialStores ==
    LET a == MkRepoEntry(MkPath(FALSE, <<"a">>),
                         MkSnooze(DateTimeStamp(0), EmptyStamp, DateTimeStamp(MaxWall)))
        b == MkRepoEntry(MkPath(FALSE, <<"b">>),
                         MkSnooze(DateTimeStamp(MaxWall), DateTimeStamp(0), EmptyStamp))
    IN  {AbsentStore, WrittenStore(MkConfig(<<a, b>>))}

StoreInit ==
    /\ scanPath \in StoreRoots
    /\ now = 0
    /\ zone \in ZoneOffsets
    /\ store \in InitialStores
    /\ stCall = NoCall
    /\ stCalls = 0
    /\ stApplied = NoApplied
    /\ ScanIdle
    /\ GitIdle
    /\ SnoozeIdle
    /\ DurationIdle

\* visitProjects: case "i": gori.SnoozeCheck(project, durationStr, check, scanPath)
StoreSnoozeCheck ==
    /\ stCalls < MaxCalls
    /\ \E name \in StoreProjects, text \in StoreDurations, check \in Checks \cup {"bogus"} :
          LET project == NewProject(Join(scanPath, MkPath(FALSE, <<name>>)),
                                    TRUE, TRUE, FALSE)
          IN  /\ store' = SnoozeCheck(project, text, check, scanPath, store, now, zone)
              /\ stCall' = [made |-> TRUE, path |-> project.Path, check |-> check,
                            duration |-> text, at |-> now, before |-> store,
                            wrote |-> check \in Checks /\ parseSnoozeDuration(text).ok]
    /\ stCalls' = stCalls + 1
    /\ stApplied' = NoApplied
    /\ UNCHANGED <<zone, commonVars, scanVars, gitVars, snoozeVars, durationVars>>

\* Time passes.
StoreTick ==
    /\ now < MaxTime
    /\ now' = now + 1
    /\ stApplied' = NoApplied
    /\ UNCHANGED <<scanPath, store, zone, stCall, stCalls, scanVars, gitVars, snoozeVars,
                   durationVars>>

\* run: LoadIgnoreConfig(scanPath), and in a worker
\* gori.ApplySnooze(repoPath, &project, ignoreConfig, scanPath)
StoreEvaluate ==
    /\ \E name \in StoreProjects :
          LET repoPath == Join(scanPath, MkPath(FALSE, <<name>>))
              project == NewProject(repoPath, TRUE, TRUE, FALSE)
          IN  stApplied' = [made |-> TRUE, at |-> now,
                            project |-> ApplySnooze(repoPath, project,
                                                    LoadIgnoreConfig(store).config,
                                                    scanPath, now)]
    /\ UNCHANGED <<store, zone, stCall, stCalls, commonVars, scanVars, gitVars,
                   snoozeVars, durationVars>>

StoreNext ==
    \/ StoreSnoozeCheck
    \/ StoreTick
    \/ StoreEvaluate

SpecStore ==
    StoreInit /\ [][StoreNext]_vars

(***************************************************************************)
(* Properties of the scan (Spec).                                          *)
(***************************************************************************)
\* The paths of the projects on the follow-up list.
YieldedPaths ==
    {projectsToVisit[k].Path : k \in 1..Len(projectsToVisit)}

\* The status lines printed so far, in order.
StatusLines ==
    SelectSeq(stdout, LAMBDA line : line.marks # <<>>)

\* The consumer is through with the i-th path.
Consumed(i) ==
    i < cidx

\* The workers that hold a permit: admitted, and not yet past <-sem.
PermitHolders ==
    {i \in Workers : wpc[i] \in {"evaluate", "lock result", "store result", "release"}}

\* The worker of the i-th path could not open the repository, get its
\* worktree or compute its status.
FailedToEvaluate(i) ==
    /\ wpc[i] \notin {"unborn", "evaluate"}
    /\ ~(checkout[i].open /\ checkout[i].worktree /\ checkout[i].status)

\* C1: the consumer yields results strictly in lexicographic path order: the
\* follow-up list and the status lines ascend by path, and when a project
\* is yielded the consumer is through with every candidate that sorts
\* before it.
C1_YieldsInSortedOrder ==
    /\ \A j, k \in 1..Len(projectsToVisit) :
          j < k => LessPath(projectsToVisit[j].Path, projectsToVisit[k].Path)
    /\ Len(StatusLines) = Len(projectsToVisit)
    /\ \A k \in 1..Len(projectsToVisit) :
          StatusLines[k].name = Base(projectsToVisit[k].Path)
    /\ \A k \in 1..Len(projectsToVisit) : \A i \in Workers :
          LessPath(repoPaths[i], projectsToVisit[k].Path) => Consumed(i)

\* C1 witness: two projects were yielded although the worker of the second
\* path had exited while the worker of the first had yet to broadcast.
C1_Witness ==
    /\ Len(projectsToVisit) = 2
    /\ Len(repoPaths) >= 2
    /\ wpc[1] = "broadcast"
    /\ wpc[2] = "exited"
    /\ projectsToVisit[1].Path = repoPaths[1]
    /\ projectsToVisit[2].Path = repoPaths[2]

\* C2: at most "concurrency" workers hold an admission permit, in every
\* state of a scan.
C2_AtMostLimitInFlight ==
    Cardinality(PermitHolders) <= concurrency

\* C2 witness: the limit is reached and the feeder has a path left to
\* dispatch.
C2_Witness ==
    /\ concurrency >= 1
    /\ Cardinality(PermitHolders) = concurrency
    /\ fed < Len(repoPaths)

\* C3: a worker that cannot open the repository, get the worktree or
\* compute the status stores an error result, the consumer yields nothing
\* for that path, and the scan goes on: the worker gives its permit back,
\* marks the path done and leaves the mutex free, and at the scan's end
\* every other candidate has a result and is on the follow-up list if it
\* has an unresolved finding.
C3_FailureIsPerPath ==
    /\ \A i \in Workers :
          FailedToEvaluate(i)
          => /\ wpc[i] \notin {"lock result", "store result"}
                => /\ repoPaths[i] \in DOMAIN results
                   /\ results[repoPaths[i]].err # ""
             /\ \A k \in 1..Len(projectsToVisit) : projectsToVisit[k].Path # repoPaths[i]
             /\ stdout # <<>>
                => LET name == Base(repoPaths[i])
                   IN  \A k \in 1..Len(stdout) : stdout[k].name # name
             /\ wpc[i] \in {"lock done", "set done", "broadcast", "exited"}
                => sem = Cardinality(PermitHolders)
             /\ wpc[i] \in {"broadcast", "exited"}
                => /\ DoneAt(done, repoPaths[i])
                   /\ mu # LockedBy("worker", i)
    /\ cpc = "end"
       => \A i \in Workers :
             /\ repoPaths[i] \in DOMAIN results
             /\ (/\ ~FailedToEvaluate(i)
                 /\ ~ProjectClean(results[repoPaths[i]].status))
                => repoPaths[i] \in YieldedPaths

\* C3 witness: a scan has ended in which the first directory could not be
\* opened and the second, evaluated by another worker, was yielded.
C3_Witness ==
    /\ cpc = "end"
    /\ Len(repoPaths) = 2
    /\ FailedToEvaluate(1)
    /\ results[repoPaths[1]].err = "opening repo"
    /\ ~FailedToEvaluate(2)
    /\ YieldedPaths = {repoPaths[2]}

\* Each finding of the i-th path is absent from the checkout or was
\* suppressed by the snooze configuration.
EveryFindingAbsentOrSuppressed(i) ==
    LET co == checkout[i]
        st == results[repoPaths[i]].status
    IN  /\ ~co.dirty \/ st.isDirtySnoozed
        /\ ~co.stash \/ st.hasStashSnoozed
        /\ isUpstreamed(co.repo, co.refs) \/ st.upstreamedSnoozed

\* C4: a repository that was evaluated is yielded, with a status line and
\* an entry of the follow-up list, exactly when it is not clean after the
\* snoozes were applied; a project whose every finding is absent or
\* suppressed is not yielded.
C4_YieldedIffNotClean ==
    \A i \in Workers :
       Consumed(i) /\ ~FailedToEvaluate(i)
       => LET st == results[repoPaths[i]].status
              onList == \E k \in 1..Len(projectsToVisit) : projectsToVisit[k] = st
              hasLine == \E k \in 1..Len(stdout) :
                            /\ stdout[k].name = Base(repoPaths[i])
                            /\ stdout[k].marks # <<>>
          IN  /\ onList <=> ~ProjectClean(st)
              /\ hasLine <=> ~ProjectClean(st)
              /\ ProjectClean(st) <=> EveryFindingAbsentOrSuppressed(i)
              /\ EveryFindingAbsentOrSuppressed(i) => repoPaths[i] \notin YieldedPaths

\* C4 witness: a scan has ended in which a dirty checkout whose findings are
\* all snoozed was passed over and a checkout with a finding left was
\* yielded.
C4_Witness ==
    /\ cpc = "end"
    /\ Len(repoPaths) = 2
    /\ \E i, j \in Workers :
          /\ ~FailedToEvaluate(i)
          /\ checkout[i].dirty
          /\ results[repoPaths[i]].status.isDirtySnoozed
          /\ EveryFindingAbsentOrSuppressed(i)
          /\ YieldedPaths = {repoPaths[j]}
          /\ ~EveryFindingAbsentOrSuppressed(j)

\* C20: every read and write of the results map and of the completion-flag
\* map, by a worker or by the consumer, happens while that goroutine holds
\* the mutex, so no two goroutines are at either map at the same time.
C20_MapsUnderMutex ==
    /\ \A i \in Workers :
          wpc[i] \in {"store result", "set done"} => mu = LockedBy("worker", i)
    /\ cpc = "check" => mu = LockedBy("consumer", 0)
    /\ \A i, j \in Workers :
          /\ wpc[i] \in {"store result", "set done"}
          /\ wpc[j] \in {"store result", "set done"} \/ cpc = "check"
          => i = j /\ cpc # "check"

\* A worker is storing its result under the mutex while another worker and
\* the consumer wait for the mutex.
C20_Witness ==
    /\ \E i \in Workers : wpc[i] = "store result" /\ mu = LockedBy("worker", i)
    /\ \E j \in Workers : wpc[j] \in {"lock result", "lock done"}
    /\ cpc \in {"lock", "woken"}

\* The workers that have published their result.
Published ==
    {i \in Workers : wpc[i] \in {"release", "lock done", "set done", "broadcast", "exited"}}

\* C21: every candidate is dispatched to one worker, once, and that worker
\* publishes one entry of the results map, for its own path: the paths are
\* distinct, the map holds exactly the results of the workers that are past
\* their write, a worker is started only from "not started" and in the
\* order of the feeder, and a step that changes the map adds the writing
\* worker's result under a key that was not there, leaving every entry
\* that was there as it is.
C21_OneEntryPerCandidate ==
    /\ [](/\ \A i, j \in Workers : i # j => repoPaths[i] # repoPaths[j]
          /\ DOMAIN results = {repoPaths[i] : i \in Published}
          /\ \A i \in Published : results[repoPaths[i]] = outcome[i])
    /\ [][/\ \A k \in DOMAIN results : k \in DOMAIN results' /\ results'[k] = results[k]
          /\ \A i \in Workers :
                wpc'[i] = "evaluate" /\ wpc[i] # "evaluate"
                => wpc[i] = "unborn" /\ fed = i - 1 /\ fed' = i
          /\ results' # results
             => \E i \in Workers :
                   /\ wpc[i] = "store result"
                   /\ wpc'[i] = "release"
                   /\ repoPaths[i] \notin DOMAIN results
                   /\ results' = MapPut(results, repoPaths[i], outcome[i])]_vars

\* Two workers have published, one an error and one a status, and the scan
\* is still under way.
C21_Witness ==
    /\ Len(repoPaths) = 2
    /\ Published = {1, 2}
    /\ results[repoPaths[1]].err # ""
    /\ results[repoPaths[2]].err = ""
    /\ cpc # "end"

\* C31: a published project carries status text only if --stat was given
\* and the project is still dirty after the suppression: a project whose
\* dirty finding is snoozed carries none, a scan without the flag has none
\* anywhere, and the consumer prints text only under the flag, right after
\* the status line of a dirty project.
C31_DiffTextOnlyWhenOptedInAndDirty ==
    /\ \A i \in Published :
          LET project == results[repoPaths[i]].status
          IN  /\ project.StatusString # NoStatusString
                 => showChanges /\ project.IsDirty /\ ~project.isDirtySnoozed
              /\ project.isDirtySnoozed => project.StatusString = NoStatusString
    /\ \A k \in 1..Len(projectsToVisit) :
          projectsToVisit[k].StatusString # NoStatusString
          => showChanges /\ projectsToVisit[k].IsDirty
    /\ \A k \in 1..Len(stdout) :
          stdout[k].text # ""
          => /\ showChanges
             /\ k > 1
             /\ stdout[k - 1].marks # <<>>
             /\ stdout[k - 1].marks[1] = "dirty"

\* Under --stat the consumer has printed the text of a dirty project, and
\* another project, whose dirty finding is snoozed, is published without
\* text.
C31_Witness ==
    /\ showChanges
    /\ \E k \in 1..Len(stdout) : stdout[k].text # ""
    /\ \E i \in Published :
          /\ results[repoPaths[i]].status.isDirtySnoozed
          /\ results[repoPaths[i]].status.StatusString = NoStatusString

C32_WitnessWake ==
    /\ cpc = "wait"
    /\ DoneAt(done, repoPaths[cidx])
    /\ wpc[cidx] = "broadcast"

\* C33: a path whose completion flag is set has its entry in the results
\* map, a flag that is set stays set, and when the consumer leaves a path
\* it has found that path's result.
C33_ResultBeforeFlag ==
    /\ [](\A i \in Workers :
             DoneAt(done, repoPaths[i])
             => repoPaths[i] \in DOMAIN results /\ results[repoPaths[i]].present)
    /\ [][/\ \A k \in DOMAIN done : done[k] => k \in DOMAIN done' /\ done'[k]
          /\ cidx' # cidx
             => /\ DoneAt(done, repoPaths[cidx])
                /\ ResultAt(results, repoPaths[cidx]).present]_vars

\* The consumer is through with the first path, whose worker had stored an
\* error, and the flag of the second is set while the consumer has yet to
\* look.
C33_Witness ==
    /\ Len(repoPaths) = 2
    /\ cidx = 2
    /\ results[repoPaths[1]].err # ""
    /\ DoneAt(done, repoPaths[1])
    /\ DoneAt(done, repoPaths[2])
    /\ results[repoPaths[2]].err = ""

\* C34: with a limit of 0 and at least one directory the feeder never gets
\* its first permit: no worker is ever started, no flag is ever set, nothing
\* is printed or put on the follow-up list, the consumer never gets past
\* the first path, and from some point on it sleeps in cond.Wait() for
\* good.
C34_ZeroLimitNeverYields ==
    (concurrency = 0 /\ Len(repoPaths) >= 1)
    => /\ [](/\ fed = 0
             /\ sem = 0
             /\ \A i \in Workers : wpc[i] = "unborn"
             /\ done = EmptyMap
             /\ results = EmptyMap
             /\ stdout = <<>>
             /\ projectsToVisit = <<>>
             /\ cidx = 1
             /\ cpc # "end")
       /\ <>[](cpc = "wait")

\* The consumer sleeps at the first of MaxDirs paths and no worker was
\* started.
C34_Witness ==
    /\ concurrency = 0
    /\ Len(repoPaths) = MaxDirs
    /\ fed = 0
    /\ cpc = "wait"
    /\ cidx = 1
    /\ ~mu.held

\* C38: every project the consumer displays gets a status line with at
\* least one mark, each mark for a finding the project has: the lines with
\* marks are as many as the projects on the follow-up list and carry their
\* names, and for every path of the scan and every combination of the three
\* findings that is not clean displayProjectStatus prints a line with a
\* mark.
C38_DisplayedProjectHasAMark ==
    /\ LET lines == StatusLines
       IN  /\ Len(lines) = Len(projectsToVisit)
           /\ \A k \in 1..Len(projectsToVisit) :
                 LET project == projectsToVisit[k]
                     marks == lines[k].marks
                 IN  /\ lines[k].name = Base(project.Path)
                     /\ marks # <<>>
                     /\ \A m \in 1..Len(marks) :
                           /\ marks[m] = "dirty" => project.IsDirty
                           /\ marks[m] = "stash" => project.HasStash
                           /\ marks[m] = "not upstreamed" => ~project.Upstreamed
    /\ fed = 0
       => \A i \in Workers : \A d, s, u \in BOOLEAN :
             LET project == NewProject(repoPaths[i], d, s, u)
             IN  ~ProjectClean(project)
                 => /\ Len(StatusLine(project)) = 1
                    /\ StatusLine(project)[1].marks # <<>>

\* The consumer has displayed two projects: one dirty, one with stashes on
\* a branch that is not upstreamed.
C38_Witness ==
    /\ Len(projectsToVisit) = 2
    /\ Len(StatusLines) = 2
    /\ projectsToVisit[1].IsDirty
    /\ StatusLines[1].marks = <<"dirty">>
    /\ projectsToVisit[2].HasStash /\ ~projectsToVisit[2].Upstreamed
    /\ StatusLines[2].marks = <<"stash", "not upstreamed">>

(***************************************************************************)
(* Properties of the upstream check (SpecGit).                             *)
(***************************************************************************)
\* The commits of the history that ends in commit c, c included.
RECURSIVE History(_, _)
History(parents, c) ==
    {c} \cup UNION {History(parents, q) : q \in parents[c]}

\* The call resolved the local branch, and the remote-tracking branch or
\* not.
LocalResolves ==
    ret.localBranch = repo.head /\ repo.local # 0

RemoteResolves ==
    repo.remote[ret.remoteBranch] # 0

\* C5: when both references resolve, isBranchUpstreamed answers (true, nil)
\* exactly when the local commit is the remote commit or lies in its
\* history, (false, nil) exactly when the local history has a commit the
\* remote history lacks, and so (true, nil) for two equal commits.
C5_AncestorOrEqual ==
    ret.fn = "isBranchUpstreamed" /\ LocalResolves /\ RemoteResolves
    => LET l == repo.local
           r == repo.remote[ret.remoteBranch]
       IN  /\ ret.err = ErrNil
           /\ ret.val <=> (l = r \/ l \in History(repo.parents, r))
           /\ ~ret.val <=> History(repo.parents, l) \ History(repo.parents, r) # {}
           /\ l = r => ret.val

\* C5 witness: the call answered true for a local commit that is neither
\* the remote commit nor one of its parents.
C5_Witness ==
    /\ ret.fn = "isBranchUpstreamed"
    /\ LocalResolves
    /\ RemoteResolves
    /\ ret.val
    /\ repo.local # repo.remote[ret.remoteBranch]
    /\ repo.local \notin repo.parents[repo.remote[ret.remoteBranch]]

\* C6: when the local branch resolves and the remote-tracking branch does
\* not exist, isBranchUpstreamed returns false with the reference-not-found
\* sentinel itself, not wrapped.
C6_RemoteNotFoundIsSentinel ==
    ret.fn = "isBranchUpstreamed" /\ LocalResolves /\ ~RemoteResolves
    => /\ ~ret.val
       /\ ret.err = ErrReferenceNotFound
       /\ ~ret.err.wrapped

\* C6 witness: the call was made for a resolving local branch whose origin
\* counterpart is missing while another remote-tracking branch exists.
C6_Witness ==
    /\ ret.fn = "isBranchUpstreamed"
    /\ LocalResolves
    /\ ~RemoteResolves
    /\ ret.err.kind = "reference not found"
    /\ \E b \in RemoteBranches : repo.remote[b] # 0

\* The checked-out branch's commit is contained in origin/<b>.
ContainedIn(b) ==
    /\ b \in RemoteBranches
    /\ repo.remote[b] # 0
    /\ repo.local \in History(repo.parents, repo.remote[b])

\* C7: for a checkout on a named branch, isUpstreamed answers true exactly
\* when the branch's commit is contained in its origin counterpart or in
\* origin/<mainish>, where mainish is main, or master when only master
\* exists.
C7_OwnBranchOrMainish ==
    ret.fn = "isUpstreamed" /\ repo.head # "HEAD"
    => LET mainish == IF repo.remote["main"] # 0 THEN "main"
                      ELSE IF repo.remote["master"] # 0 THEN "master"
                      ELSE ""
       IN  ret.val <=> /\ repo.local # 0
                       /\ ContainedIn(repo.head) \/ ContainedIn(mainish)

\* C8: when origin/main and origin/master both exist, the locator returns
\* main, in whatever order the references are enumerated.
C8_MainPreferred ==
    /\ ret.fn = "getLikelyUpstreamMainishBranch"
    /\ repo.remote["main"] # 0
    /\ repo.remote["master"] # 0
    => ret.name = "main" /\ ret.err = ErrNil

\* C22: isBranchUpstreamed resolves the local branch first: when it has no
\* reference the call returns false with the wrapped local error, also when
\* the origin counterpart is missing too; that error does not equal the
\* reference-not-found sentinel isUpstreamed compares with; and a checkout
\* whose branch has no resolvable reference is not upstreamed.
C22_LocalBranchFirst ==
    /\ ret.fn = "isBranchUpstreamed" /\ ~LocalResolves
       => /\ ~ret.val
          /\ ret.err = Wrap(ErrReferenceNotFound)
          /\ ret.err # ErrReferenceNotFound
    /\ ret.fn = "isUpstreamed" /\ repo.head # "HEAD" /\ repo.local = 0
       => ~ret.val

\* The call was made for a local branch without a reference whose origin
\* counterpart is missing as well.
C22_Witness ==
    /\ ret.fn = "isBranchUpstreamed"
    /\ ~LocalResolves
    /\ ~RemoteResolves
    /\ ret.err.wrapped

\* C23: on a detached HEAD isUpstreamed returns false at once: it calls
\* neither isBranchUpstreamed nor getLikelyUpstreamMainishBranch and prints
\* its one diagnostic to the error stream, also when the checked-out commit
\* is contained in origin/main.
C23_DetachedIsNotUpstreamed ==
    ret.fn = "isUpstreamed" /\ repo.head = "HEAD"
    => /\ ~ret.val
       /\ ret.calls = <<>>
       /\ ret.errs = <<"local checkout does not have branch name">>
       /\ ret.out = <<>>

\* isUpstreamed was called on a detached HEAD at a commit of origin/main.
C23_Witness ==
    /\ ret.fn = "isUpstreamed"
    /\ repo.head = "HEAD"
    /\ ContainedIn("main")
    /\ ~ret.val

\* C24: without origin/main and origin/master the locator fails with "no
\* mainish branch", and isUpstreamed, for a branch its origin counterpart
\* does not confirm, calls the locator and returns false; with only
\* origin/master the locator returns master.
C24_NoMainishBranch ==
    /\ /\ ret.fn = "getLikelyUpstreamMainishBranch"
       /\ repo.remote["main"] = 0
       /\ repo.remote["master"] = 0
       => ret.name = "" /\ ret.err = ErrNoMainish
    /\ /\ ret.fn = "getLikelyUpstreamMainishBranch"
       /\ repo.remote["main"] = 0
       /\ repo.remote["master"] # 0
       => ret.name = "master" /\ ret.err = ErrNil
    /\ /\ ret.fn = "isUpstreamed"
       /\ repo.head # "HEAD"
       /\ repo.local # 0
       /\ ~ContainedIn(repo.head)
       /\ repo.remote["main"] = 0
       /\ repo.remote["master"] = 0
       => /\ ~ret.val
          /\ ret.calls = <<MkGitCall("isBranchUpstreamed", repo.head, repo.head),
                           MkGitCall("getLikelyUpstreamMainishBranch", "", "")>>
          /\ ret.errs = <<"could not determine upstream branch">>

\* isUpstreamed was called on feat, which is ahead of origin/feat, in a
\* repository without origin/main and origin/master.
C24_Witness ==
    /\ ret.fn = "isUpstreamed"
    /\ repo.head = "feat"
    /\ repo.local # 0
    /\ repo.remote["feat"] # 0
    /\ ~ContainedIn("feat")
    /\ repo.remote["main"] = 0
    /\ repo.remote["master"] = 0
    /\ ~ret.val

\* The result a worker of run publishes for a checkout of the repository
\* that is neither dirty nor has a stash, under a configuration.
PublishedFor(config) ==
    Evaluate(Join(scanPath, MkPath(FALSE, <<"b">>)),
             MkCheckout(TRUE, TRUE, TRUE, FALSE, FALSE, repo, ret.refs),
             config, scanPath, FALSE, now)

\* A configuration whose entry for b snoozes not_upstreamed to the last
\* second of the model.
SnoozesUpstream ==
    MkConfig(<<MkRepoEntry(MkPath(FALSE, <<"b">>),
                           MkSnooze(EmptyStamp, EmptyStamp, DateTimeStamp(MaxWall + 1)))>>)

C29_DiagnosticsOnErrorStream ==
    ret.fn = "isUpstreamed" => ret.out = <<>>

(***************************************************************************)
(* Properties of the suppression (SpecSnooze).                             *)
(***************************************************************************)
\* The timestamp has the layout of a date and time and names an instant
\* after the clock's.
LaterThanNow(stamp) ==
    stamp.text = "datetime" /\ stamp.wall * TicksPerSecond > now

\* C9: applying the snoozes never makes a finding worse: a working tree that
\* was not dirty, a stash list that was empty and a branch that was
\* upstreamed stay so and are not marked snoozed, so a clean project stays
\* clean, whatever the entries say.
C9_SuppressionIsMonotone ==
    /\ ~snBefore.IsDirty => ~snProject.IsDirty /\ ~snProject.isDirtySnoozed
    /\ ~snBefore.HasStash => ~snProject.HasStash /\ ~snProject.hasStashSnoozed
    /\ snBefore.Upstreamed => snProject.Upstreamed /\ ~snProject.upstreamedSnoozed
    /\ ProjectClean(snBefore) => snProject = snBefore

\* C9 witness: ApplySnooze returned after a matching entry whose three
\* snoozes were all active met a project without a dirty tree and without
\* stashes.
C9_Witness ==
    /\ snPc = "returned"
    /\ snCount >= 1
    /\ EntryMatches(snRepoPath, snEntry, scanPath)
    /\ LaterThanNow(snEntry.Snooze.DirtyWorkdir)
    /\ LaterThanNow(snEntry.Snooze.Stashes)
    /\ LaterThanNow(snEntry.Snooze.NotUpstreamed)
    /\ ~snBefore.IsDirty
    /\ ~snBefore.HasStash
    /\ ~snProject.isDirtySnoozed
    /\ ~snProject.hasStashSnoozed

\* The one entry of the configuration matched the repository and its three
\* kinds have been checked.
OneMatchingEntryApplied ==
    /\ ~snNil
    /\ snCount = 1
    /\ snPc \in {"loop", "returned"}
    /\ EntryMatches(snRepoPath, snEntry, scanPath)

\* C10: with one matching entry, a finding that is bad is suppressed exactly
\* when the timestamp of its kind parses as a date and time and is strictly
\* later than the time of the evaluation; an empty, an unparseable, an
\* equal and an earlier timestamp suppress nothing.
C10_SuppressedIffStrictlyLater ==
    OneMatchingEntryApplied
    => /\ snBefore.IsDirty
          => /\ snProject.isDirtySnoozed <=> LaterThanNow(snEntry.Snooze.DirtyWorkdir)
             /\ snProject.IsDirty <=> ~LaterThanNow(snEntry.Snooze.DirtyWorkdir)
       /\ snBefore.HasStash
          => /\ snProject.hasStashSnoozed <=> LaterThanNow(snEntry.Snooze.Stashes)
             /\ snProject.HasStash <=> ~LaterThanNow(snEntry.Snooze.Stashes)
       /\ ~snBefore.Upstreamed
          => /\ snProject.upstreamedSnoozed <=> LaterThanNow(snEntry.Snooze.NotUpstreamed)
             /\ snProject.Upstreamed <=> LaterThanNow(snEntry.Snooze.NotUpstreamed)

\* C10 witness: a dirty tree whose timestamp equals the time of the
\* evaluation stayed dirty, stashes with a later timestamp were suppressed,
\* and an unparseable timestamp left the branch not upstreamed.
C10_Witness ==
    /\ OneMatchingEntryApplied
    /\ snBefore.IsDirty
    /\ snBefore.HasStash
    /\ ~snBefore.Upstreamed
    /\ snEntry.Snooze.DirtyWorkdir.text = "datetime"
    /\ snEntry.Snooze.DirtyWorkdir.wall * TicksPerSecond = now
    /\ snProject.IsDirty
    /\ LaterThanNow(snEntry.Snooze.Stashes)
    /\ snProject.hasStashSnoozed
    /\ snEntry.Snooze.NotUpstreamed = GarbageStamp
    /\ ~snProject.Upstreamed

\* C19: when several entries match the project, the outcome for each kind
\* is the one the last matching entry with a timestamp for that kind
\* dictates: after ApplySnooze has returned from a loop whose last entry
\* matched, a finding that was bad and has a timestamp in that entry is
\* suppressed exactly when that timestamp is later than now.
C19_LastEntryWins ==
    /\ snPc = "returned"
    /\ snCount >= 1
    /\ EntryMatches(snRepoPath, snEntry, scanPath)
    => /\ snBefore.IsDirty /\ snEntry.Snooze.DirtyWorkdir # EmptyStamp
          => (snProject.isDirtySnoozed <=> LaterThanNow(snEntry.Snooze.DirtyWorkdir))
       /\ snBefore.HasStash /\ snEntry.Snooze.Stashes # EmptyStamp
          => (snProject.hasStashSnoozed <=> LaterThanNow(snEntry.Snooze.Stashes))
       /\ ~snBefore.Upstreamed /\ snEntry.Snooze.NotUpstreamed # EmptyStamp
          => (snProject.upstreamedSnoozed
              <=> LaterThanNow(snEntry.Snooze.NotUpstreamed))

\* C26: a snoozed flag is set only for a finding that was bad before the
\* call and is good now: isDirtySnoozed only with IsDirty false,
\* hasStashSnoozed only with HasStash false, upstreamedSnoozed only with
\* Upstreamed true, and never for a finding that was absent from the start.
C26_SnoozedFlagsMeanSuppressed ==
    /\ snProject.isDirtySnoozed => snBefore.IsDirty /\ ~snProject.IsDirty
    /\ snProject.hasStashSnoozed => snBefore.HasStash /\ ~snProject.HasStash
    /\ snProject.upstreamedSnoozed => ~snBefore.Upstreamed /\ snProject.Upstreamed

\* ApplySnooze has returned: the dirty tree was suppressed, the stashes,
\* whose timestamp had passed, still stand, and the branch was upstreamed
\* from the start.
C26_Witness ==
    /\ snPc = "returned"
    /\ snBefore.IsDirty /\ snBefore.HasStash /\ snBefore.Upstreamed
    /\ snProject.isDirtySnoozed
    /\ snProject.HasStash
    /\ ~snProject.hasStashSnoozed
    /\ snEntry.Snooze.Stashes.text = "datetime"
    /\ ~snProject.upstreamedSnoozed

\* The marks of the line displayProjectStatus prints for the project.
MarksShown(project) ==
    LET line == StatusLine(project)
    IN  IF line = <<>> THEN {}
        ELSE {line[1].marks[k] : k \in 1..Len(line[1].marks)}

\* C30: the status line of a yielded project, one that ApplySnooze left a
\* finding, shows the three findings independently: the dirty mark iff
\* IsDirty, the stash mark iff HasStash, the not-upstreamed mark iff
\* Upstreamed is false.
C30_MarksAreIndependent ==
    (snPc = "returned" /\ ~ProjectClean(snProject)) =>
        /\ "dirty" \in MarksShown(snProject) <=> snProject.IsDirty
        /\ "stash" \in MarksShown(snProject) <=> snProject.HasStash
        /\ "not upstreamed" \in MarksShown(snProject) <=> ~snProject.Upstreamed

RECURSIVE Walk(_, _)
\* Where a walk from the root of the file system along the elements ends:
\* "." stays, ".." goes up, a name goes down.
Walk(segs, at) ==
    IF segs = <<>> THEN at
    ELSE IF Head(segs) = "." THEN Walk(Tail(segs), at)
    ELSE IF Head(segs) = ".."
    THEN Walk(Tail(segs), IF at = <<>> THEN at ELSE SubSeq(at, 1, Len(at) - 1))
    ELSE Walk(Tail(segs), Append(at, Head(segs)))

\* The absolute location of a path, relative ones taken from the working
\* directory.
Location(p) ==
    Walk((IF p.abs THEN <<>> ELSE Cwd.segs) \o p.segs, <<>>)

\* The entry's path, taken from the scan root, is where the project is.
SameLocation(entry) ==
    Walk(Location(scanPath) \o entry.Path.segs, <<>>) = Location(snRepoPath)

\* C27: an entry is applied exactly when its path, resolved from the scan
\* root, is the project's absolute location; the project changes only
\* while such an entry is applied, so the entries of other projects leave
\* it as it is; and Path and StatusString never change.
C27_OnlyMatchingEntriesApply ==
    /\ [](/\ snProject.Path = snBefore.Path
          /\ snProject.StatusString = snBefore.StatusString
          /\ snCount >= 1
             => (EntryMatches(snRepoPath, snEntry, scanPath) <=> SameLocation(snEntry))
          /\ snPc \in {"dirty", "stash", "upstreamed"} => SameLocation(snEntry))
    /\ [][/\ snProject' # snProject
             => SameLocation(snEntry) /\ snPc \in {"dirty", "stash", "upstreamed"}
          /\ snCount' # snCount /\ ~SameLocation(snEntry')
             => snPc' = "loop" /\ snProject' = snProject]_vars

\* The second entry, "../a", has been met and passed over: the dirty
\* project is as it was.
C27_Witness ==
    /\ snCount = 2
    /\ snPc = "loop"
    /\ snEntry.Path = MkPath(FALSE, <<"..", "a">>)
    /\ snBefore.IsDirty
    /\ snProject = snBefore

\* The snooze with the timestamp of one field replaced.
WithStamp(snooze, field, stamp) ==
    CASE field = "dirty_workdir" -> [snooze EXCEPT !.DirtyWorkdir = stamp]
      [] field = "stashes" -> [snooze EXCEPT !.Stashes = stamp]
      [] field = "not_upstreamed" -> [snooze EXCEPT !.NotUpstreamed = stamp]

\* The finding of the field is bad and not marked snoozed.
FindingStands(project, field) ==
    CASE field = "dirty_workdir" -> project.IsDirty /\ ~project.isDirtySnoozed
      [] field = "stashes" -> project.HasStash /\ ~project.hasStashSnoozed
      [] field = "not_upstreamed" -> ~project.Upstreamed /\ ~project.upstreamedSnoozed

\* C37: a timestamp that does not parse suppresses nothing and stops
\* nothing.  For a matching entry with such a timestamp in one field,
\* followed by a second matching entry, ApplySnooze gives what it gives
\* when the field is empty, and the entry alone leaves a bad finding of
\* that kind standing; the step that meets the timestamp leaves the project
\* as it is and goes on to the next check, and the checks after it
\* suppress as usual.
C37_UnparsableTimestampIsSkipped ==
    /\ [](snPc = "call"
          => \A field \in SnoozeFields, x \in Stamps, y \in Stamps, z \in Stamps :
                LET path == MkPath(FALSE, <<"a">>)
                    garbled == MkRepoEntry(path, WithStamp(MkSnooze(x, y, x), field,
                                                           GarbageStamp))
                    blank == MkRepoEntry(path, WithStamp(MkSnooze(x, y, x), field,
                                                         EmptyStamp))
                    later == MkRepoEntry(path, MkSnooze(z, z, z))
                    alone == ApplySnooze(snRepoPath, snBefore, MkConfig(<<garbled>>),
                                         scanPath, now)
                IN  /\ ApplySnooze(snRepoPath, snBefore, MkConfig(<<garbled, later>>),
                                   scanPath, now)
                       = ApplySnooze(snRepoPath, snBefore, MkConfig(<<blank, later>>),
                                     scanPath, now)
                    /\ FindingStands(snBefore, field) => FindingStands(alone, field))
    /\ [][/\ snPc = "dirty" /\ snEntry'.Snooze.DirtyWorkdir = GarbageStamp
             => snProject' = snProject /\ snPc' = "stash"
          /\ snPc = "stash" /\ snEntry'.Snooze.Stashes = GarbageStamp
             => snProject' = snProject /\ snPc' = "upstreamed"
          /\ snPc = "upstreamed" /\ snEntry'.Snooze.NotUpstreamed = GarbageStamp
             => snProject' = snProject /\ snPc' = "loop"
          /\ (/\ snPc = "stash"
              /\ snEntry.Snooze.DirtyWorkdir = GarbageStamp
              /\ snProject.HasStash
              /\ LaterThanNow(snEntry'.Snooze.Stashes))
             => ~snProject'.HasStash /\ snProject'.hasStashSnoozed
          /\ (/\ snPc = "upstreamed"
              /\ GarbageStamp \in {snEntry.Snooze.DirtyWorkdir, snEntry.Snooze.Stashes}
              /\ ~snProject.Upstreamed
              /\ LaterThanNow(snEntry'.Snooze.NotUpstreamed))
             => snProject'.Upstreamed /\ snProject'.upstreamedSnoozed]_vars

\* ApplySnooze has returned after a second matching entry whose dirty
\* timestamp did not parse: the dirty tree stands, the stashes and the
\* branch are suppressed by that entry's other timestamps or the one
\* before.
C37_Witness ==
    /\ snPc = "returned"
    /\ snCount = 2
    /\ EntryMatches(snRepoPath, snEntry, scanPath)
    /\ snEntry.Snooze.DirtyWorkdir = GarbageStamp
    /\ LaterThanNow(snEntry.Snooze.Stashes)
    /\ snBefore.IsDirty /\ snBefore.HasStash /\ ~snBefore.Upstreamed
    /\ snProject.IsDirty
    /\ ~snProject.isDirtySnoozed
    /\ snProject.hasStashSnoozed
    /\ snProject.upstreamedSnoozed

(***************************************************************************)
(* Properties of the duration parser (SpecDuration).                       *)
(***************************************************************************)
\* C12: an integer N followed by d, w or y parses to N*24, N*168 and N*8760
\* hours, and a string that is neither a standard duration nor an integer
\* with one of d, w, m, y is refused with an error.
C12_DaysWeeksYears ==
    durRet.called
    => /\ durIn.class = "custom" /\ durIn.unit \in {"d", "w", "y"}
          => LET hours == CASE durIn.unit = "d" -> durIn.count * 24
                            [] durIn.unit = "w" -> durIn.count * 168
                            [] durIn.unit = "y" -> durIn.count * 8760
             IN  /\ durRet.ok
                 /\ durRet.d = [wrapped |-> FALSE, neg |-> FALSE,
                                span |-> MkSpan(hours, 0, 0)]
       /\ durIn.class = "neither" => ~durRet.ok

\* C13: a positive integer N followed by m parses to N months of 30 days.
C13_MonthsOfThirtyDays ==
    durRet.called /\ durIn.class = "custom" /\ durIn.unit = "m" /\ durIn.count >= 1
    => /\ durRet.ok
       /\ durRet.d = [wrapped |-> FALSE, neg |-> FALSE,
                      span |-> MkSpan(durIn.count * 30 * 24, 0, 0)]

\* C35: a duration string that parseSnoozeDuration accepts gives a span
\* that is strictly positive: not zero, not negative, not the value an
\* int64 wraps to.
C35_AcceptedDurationsArePositive ==
    durRet.called /\ durRet.ok
    => /\ ~durRet.d.wrapped
       /\ ~durRet.d.neg
       /\ durRet.d.span # MkSpan(0, 0, 0)

(***************************************************************************)
(* Properties of the store (SpecStore).                                    *)
(***************************************************************************)
\* The snooze fields a check selects.
SelectedFields(check) ==
    CASE check = "all" -> SnoozeFields
      [] check = "dirty" -> {"dirty_workdir"}
      [] check = "stash" -> {"stashes"}
      [] check = "upstream" -> {"not_upstreamed"}

\* The evaluation suppressed the finding of that field.
SuppressedIn(project, field) ==
    CASE field = "dirty_workdir" -> project.isDirtySnoozed
      [] field = "stashes" -> project.hasStashSnoozed
      [] field = "not_upstreamed" -> project.upstreamedSnoozed

\* The last call of SnoozeCheck recorded a snooze; the duration it was
\* given is the one valid string drawn, a second.
CallRecorded ==
    stCall.made /\ stCall.wrote /\ stCall.duration = <<"1", "s">>

CallExpiry ==
    stCall.at + TicksPerSecond

\* C11: a snooze of duration D recorded at time T suppresses the finding at
\* every evaluation before T + D and at none after T + D, whatever the
\* local time zone.
C11_RoundTrip ==
    CallRecorded /\ stApplied.made /\ stApplied.project.Path = stCall.path
    => \A f \in SelectedFields(stCall.check) :
          /\ stApplied.at < CallExpiry => SuppressedIn(stApplied.project, f)
          /\ stApplied.at > CallExpiry => ~SuppressedIn(stApplied.project, f)

\* C14: a call with a valid check and duration on a loadable store sets the
\* selected timestamps of the project's entry to now + duration, adding the
\* entry when the project has none, and leaves the other timestamps of
\* that entry and the entries of the other projects as they were.
C14_SetsOnlySelected ==
    CallRecorded /\ stCall.before.state = "written"
    => LET old == LoadIgnoreConfig(stCall.before).config.Repos
           new == LoadIgnoreConfig(store).config.Repos
           until == DateTimeStamp(CallExpiry \div TicksPerSecond + zone)
           mine(e) == EntryMatches(stCall.path, e, scanPath)
           set(before, after) ==
               \A f \in SnoozeFields :
                  FieldOf(after, f) = IF f \in SelectedFields(stCall.check)
                                      THEN until ELSE FieldOf(before, f)
       IN  /\ Len(new) >= Len(old)
           /\ \A i \in 1..Len(old) :
                 /\ new[i].Path = old[i].Path
                 /\ IF mine(old[i]) THEN set(old[i].Snooze, new[i].Snooze)
                    ELSE new[i] = old[i]
           /\ IF \E i \in 1..Len(old) : mine(old[i])
              THEN Len(new) = Len(old)
              ELSE /\ Len(new) = Len(old) + 1
                   /\ mine(new[Len(new)])
                   /\ set(NoEntry.Snooze, new[Len(new)].Snooze)

\* C18: the store never holds two entries for one project.
C18_OneEntryPerProject ==
    LET repos == LoadIgnoreConfig(store).config.Repos
        location(e) == Clean(Join(Abs(scanPath), e.Path))
    IN  \A i, j \in 1..Len(repos) : i # j => location(repos[i]) # location(repos[j])

\* The last call of SnoozeCheck was given a check that is none of dirty,
\* stash, upstream and all, or the string that is no duration.
CallInvalid ==
    /\ stCall.made
    /\ \/ stCall.check \notin {"dirty", "stash", "upstream", "all"}
       \/ stCall.duration = <<"b", "o", "g", "u", "s">>

\* C28: a call of SnoozeCheck with an invalid check or an invalid duration
\* writes nothing: the file is what it was before the call, and a file
\* that was not there is not created.
C28_InvalidCallWritesNothing ==
    CallInvalid => store = stCall.before

\* A call with an invalid check found a written file with two entries and
\* left it.
C28_Witness ==
    /\ CallInvalid
    /\ stCall.check = "bogus"
    /\ stCall.duration = <<"1", "s">>
    /\ stCall.before.state = "written"
    /\ Len(stCall.before.repos) = 2
    /\ store = stCall.before

\* A call with an invalid duration found no file and created none.
C28_WitnessAbsent ==
    /\ CallInvalid
    /\ stCall.check = "all"
    /\ stCall.duration = <<"b", "o", "g", "u", "s">>
    /\ stCall.before = AbsentStore
    /\ store = AbsentStore

\* C36: ApplySnooze is idempotent.  With the configuration of the file, the
\* scan root and the clock of the last evaluation, the project the
\* evaluation left, whose three findings were bad, is left as it is by a
\* second call, and so is the outcome of the call for the project with a
\* dirty tree only and for the one with stashes on a branch that is not
\* upstreamed.
C36_ApplySnoozeIsIdempotent ==
    stApplied.made
    => LET config == LoadIgnoreConfig(store).config
           repoPath == stApplied.project.Path
       IN  /\ stApplied.at = now
           /\ ApplySnooze(repoPath, stApplied.project, config, scanPath, now)
              = stApplied.project
           /\ \A d \in BOOLEAN :
                 LET once == ApplySnooze(repoPath, NewProject(repoPath, d, ~d, d),
                                         config, scanPath, now)
                 IN  ApplySnooze(repoPath, once, config, scanPath, now) = once

\* The evaluation suppressed the stashes and the branch and left the dirty
\* tree, whose timestamp had passed, with a file of two entries.
C36_Witness ==
    /\ stApplied.made
    /\ store.state = "written"
    /\ Len(store.repos) = 2
    /\ stApplied.project.IsDirty
    /\ ~stApplied.project.isDirtySnoozed
    /\ stApplied.project.hasStashSnoozed
    /\ stApplied.project.upstreamedSnoozed

(***************************************************************************)
(* Properties of the scan with a hung evaluation (SpecHang)                *)
(***************************************************************************)

\* The directories other than the hung one.
Siblings ==
    Workers \ {hang}

\* The worker of the i-th path has published its completion flag.
Completed(i) ==
    DoneAt(done, repoPaths[i])

\* The i-th path qualifies for the follow-up list: it was evaluated without
\* an error and has a finding.
Qualifies(i) ==
    Visited(ResultAt(results, repoPaths[i])) # <<>>

\* C15 as stated: when the evaluation of one directory never returns, every
\* sibling is still admitted and eventually publishes its completion flag,
\* whatever the concurrency limit (>= 1) and wherever the hung directory
\* sorts.
C15_SiblingsComplete ==
    <>(\A i \in Siblings : Completed(i))

\* C15 amended: the hung worker keeps its permit.  The siblings that sort
\* before the hung directory always complete; with a concurrency limit of
\* 2 or more every sibling completes; with a limit of 1 no sibling that
\* sorts after the hung directory is ever admitted.
C15_SiblingsCompleteWithinLimit ==
    /\ <>(\A i \in Siblings : i < hang => Completed(i))
    /\ <>(concurrency >= 2 => \A i \in Siblings : Completed(i))
    /\ [](concurrency = 1 => \A i \in Siblings : i > hang => wpc[i] = "unborn")

\* The first directory hangs and holds its permit while the second one has
\* completed on the other permit.
C15_Witness ==
    /\ hang = 1
    /\ wpc[1] = "evaluate"
    /\ Len(repoPaths) = 2
    /\ Completed(2)
    /\ wpc[2] = "exited"
    /\ sem = 1

\* C16: when the evaluation of path p never returns, the consumer blocks at
\* p for good: nothing of p or of a path sorted after p is ever yielded,
\* finished or not, and every qualifying result of a path sorted before p
\* is yielded.
C16_ConsumerBlocksAtHung ==
    /\ [](/\ cidx <= hang
          /\ \A k \in 1..Len(projectsToVisit) :
                LessPath(projectsToVisit[k].Path, repoPaths[hang])
          /\ \A k \in 1..Len(stdout) :
                \E i \in 1..(hang - 1) : stdout[k].name = Base(repoPaths[i]))
    /\ <>[](/\ cidx = hang
            /\ cpc = "wait"
            /\ \A i \in 1..(hang - 1) :
                  Qualifies(i) => repoPaths[i] \in YieldedPaths)

\* The second directory has completed with a finding while the first one
\* hangs: the consumer sleeps at the first and has yielded nothing.
C16_Witness ==
    /\ hang = 1
    /\ Len(repoPaths) = 2
    /\ wpc[2] = "exited"
    /\ Completed(2)
    /\ Qualifies(2)
    /\ cpc = "wait"
    /\ cidx = 1
    /\ projectsToVisit = <<>>
    /\ stdout = <<>>

(***************************************************************************)
(* Properties of the scan without a usable store (SpecNoStore)             *)
(***************************************************************************)

\* C17: when the store is absent or does not compile or decode, the scan
\* goes on with a nil configuration: every candidate is still evaluated,
\* the result of a project is exactly what the checkout shows, with no
\* finding suppressed, every project with a finding is yielded, and the
\* scan that ends has been through every candidate.
C17_NothingSuppressedWithoutStore ==
    /\ LoadIgnoreConfig(store).err # ""
    /\ ignoreConfig = NilConfig
    /\ \A i \in Workers :
          repoPaths[i] \in DOMAIN results /\ ~FailedToEvaluate(i) =>
              LET co == checkout[i]
                  st == results[repoPaths[i]].status
              IN  /\ results[repoPaths[i]].err = ""
                  /\ st.IsDirty = co.dirty
                  /\ st.HasStash = co.stash
                  /\ st.Upstreamed = isUpstreamed(co.repo, co.refs)
                  /\ ~st.isDirtySnoozed /\ ~st.hasStashSnoozed /\ ~st.upstreamedSnoozed
                  /\ Consumed(i) /\ ~ProjectClean(st) => repoPaths[i] \in YieldedPaths
    /\ cpc = "end" => \A i \in Workers : Consumed(i) /\ repoPaths[i] \in DOMAIN results

\* The store holds an active entry for b but does not decode; the scan has
\* ended and has yielded the dirty b.
C17_Witness ==
    /\ store.state = "undecodable"
    /\ store.repos # <<>>
    /\ cpc = "end"
    /\ \E i \in Workers :
          /\ repoPaths[i] = Join(scanPath, MkPath(FALSE, <<"b">>))
          /\ checkout[i].dirty
          /\ repoPaths[i] \in YieldedPaths

====
